---- MODULE Spec2Model ----
(***************************************************************************)
(* acp-multiplex: a multiplexing proxy between one agent subprocess and    *)
(* several frontends, speaking line-delimited JSON-RPC 2.0.                *)
(*                                                                         *)
(* The model follows the goroutines of the program:                        *)
(*   aloop   Proxy.readFromAgent (one goroutine)                           *)
(*   floop   Proxy.readFromFrontends (one goroutine)                       *)
(*   replay  one Cache.Replay goroutine per secondary frontend             *)
(*   bcasts  the detached "go p.broadcastExcept" goroutines                *)
(* The frontends and the agent are the environment: chan, agentOut and     *)
(* agentExited are their inputs, out and agentIn what the proxy writes.    *)
(* dispatched is a history of the list copies the broadcasts have taken.   *)
(* Each step of a goroutine is one critical section, one atomic operation  *)
(* or one Frontend.Send of the source.  A JSON line is a record of its     *)
(* members; raw ids are kept as the text of their JSON bytes.              *)
(***************************************************************************)
EXTENDS Integers, Sequences, FiniteSets, TLC

\* ------------------------------------------------------------------ bounds
MaxEvents == 4           \* inputs: attachments, departures, lines, agent exit
MaxBlocks == 1           \* content blocks in one session/prompt
MaxSecondaries == 2      \* socket connections accepted

Primary == 0
NoFe == -1
\* main numbers the accepted connections from 2
Secondaries == 2..(MaxSecondaries + 1)
FeIds == {Primary} \cup Secondaries

\* ------------------------------------------------------------- JSON lines
NoId == ""               \* the line has no "id" member
NullId == "null"
NoBlock == [type |-> "", text |-> <<>>]
NoUpdate == [sessionUpdate |-> "", content |-> NoBlock, stopReason |-> "",
             currentModeId |-> ""]
NoParams == [sessionId |-> "", prompt |-> <<>>, modeId |-> "",
             update |-> NoUpdate, tag |-> 0]
NoResult == [stopReason |-> "", sessionId |-> "", echo |-> 0]
NoError == [code |-> 0, message |-> ""]

Line(id, method, params, result, error) ==
  [id |-> id, method |-> method, params |-> params, result |-> result,
   error |-> error]

TextBlock(t) == [type |-> "text", text |-> t]

\* json.Marshal(int64): the decimal text of a proxy id
Decimals == <<"1", "2", "3", "4", "5", "6", "7", "8", "9">>
MarshalInt(n) == IF n = 0 THEN "0" ELSE Decimals[n]

\* json.Unmarshal(raw, &int64): <<ok, value>>
UnmarshalInt(raw) ==
  IF raw = "0" THEN <<TRUE, 0>>
  ELSE IF \E n \in DOMAIN Decimals : Decimals[n] = raw
       THEN <<TRUE, CHOOSE n \in DOMAIN Decimals : Decimals[n] = raw>>
       ELSE IF raw = NullId THEN <<TRUE, 0>> ELSE <<FALSE, 0>>

\* ------------------------------------------------------------- message.go
\* Envelope.ID is a *json.RawMessage: encoding/json leaves the pointer nil
\* both when the member is absent and when it is the JSON literal null.
parseEnvelope(line) ==
  [ID |-> IF line.id = NullId THEN NoId ELSE line.id,
   Method |-> line.method,
   Params |-> line.params,
   Result |-> line.result,
   Error |-> line.error]

classify(env) ==
  LET hasMethod == env.Method # ""
      hasID == env.ID # NoId
  IN  IF hasMethod /\ hasID THEN "KindRequest"
      ELSE IF hasMethod /\ ~hasID THEN "KindNotification"
      ELSE IF ~hasMethod /\ hasID THEN "KindResponse"
      ELSE "KindInvalid"

\* variant: the line goes on with the id its sender gave it
rewriteID_unchanged(line, newID) == line

\* variant: the line is marshalled again without its params
rewriteID_bare(line, newID) ==
  [line EXCEPT !.id = MarshalInt(newID), !.params = NoParams]

rewriteID(line, newID) == [line EXCEPT !.id = MarshalInt(newID)]

\* variant: the response keeps the id the agent answered under
restoreID_unchanged(line, origID) == line

restoreID(line, origID) == [line EXCEPT !.id = origID]

\* the JSON-RPC error both drain paths marshal
errResp(origID) ==
  Line(origID, "", NoParams, NoResult,
       [code |-> -32603, message |-> "Agent process exited"])

\* --------------------------------------------------------------- cache.go
\* an optional []byte slot is a sequence of at most one line
NoLine == <<>>
NewCache ==
  [meta |-> NoLine, initResp |-> NoLine, newResp |-> NoLine, updates |-> <<>>,
   chunkType |-> "", chunkText |-> <<>>, chunkMeta |-> "",
   pendingPermission |-> NoLine]

\* variant: a response already stored is kept
SetInitResponse_keepFirst(c, line) ==
  IF c.initResp = NoLine THEN [c EXCEPT !.initResp = <<line>>] ELSE c

SetInitResponse(c, line) == [c EXCEPT !.initResp = <<line>>]

SetNewResponse(c, line) == [c EXCEPT !.newResp = <<line>>]

SetMeta(c, line) == [c EXCEPT !.meta = <<line>>]

SetPendingPermission(c, line) == [c EXCEPT !.pendingPermission = <<line>>]

ClearPendingPermission(c) == [c EXCEPT !.pendingPermission = NoLine]

parseUpdateType(line) ==
  [kind |-> line.params.update.sessionUpdate,
   text |-> line.params.update.content.text,
   sessionID |-> line.params.sessionId]

SessionUpdate(sessionId, update) ==
  Line(NoId, "session/update",
       [NoParams EXCEPT !.sessionId = sessionId, !.update = update],
       NoResult, NoError)

\* variant: the accumulator is kept after the flush
flushChunks_noReset(c) ==
  IF c.chunkType = "" THEN c
  ELSE [c EXCEPT
          !.updates = Append(c.updates,
             SessionUpdate(c.chunkMeta,
               [NoUpdate EXCEPT !.sessionUpdate = c.chunkType,
                                !.content = TextBlock(c.chunkText)]))]

flushChunks(c) ==
  IF c.chunkType = "" THEN c
  ELSE [c EXCEPT
          !.updates = Append(c.updates,
             SessionUpdate(c.chunkMeta,
               [NoUpdate EXCEPT !.sessionUpdate = c.chunkType,
                                !.content = TextBlock(c.chunkText)])),
          !.chunkType = "",
          !.chunkText = <<>>]

IsChunkKind(kind) == kind \in {"agent_message_chunk", "agent_thought_chunk"}

\* variant: a chunk's text is put in front of the accumulated text
AddUpdate_prepend(c, line) ==
  LET u == parseUpdateType(line)
  IN  IF IsChunkKind(u.kind)
      THEN IF c.chunkType = u.kind
           THEN [c EXCEPT !.chunkText = u.text \o c.chunkText]
           ELSE [flushChunks(c) EXCEPT !.chunkType = u.kind,
                                       !.chunkText = u.text,
                                       !.chunkMeta = u.sessionID]
      ELSE LET d == flushChunks(c)
           IN  [d EXCEPT !.updates = Append(d.updates, line)]

\* variant: a non-chunk update is stored without flushing the accumulator
AddUpdate_noFlush(c, line) ==
  LET u == parseUpdateType(line)
  IN  IF IsChunkKind(u.kind)
      THEN IF c.chunkType = u.kind
           THEN [c EXCEPT !.chunkText = c.chunkText \o u.text]
           ELSE [flushChunks(c) EXCEPT !.chunkType = u.kind,
                                       !.chunkText = u.text,
                                       !.chunkMeta = u.sessionID]
      ELSE [c EXCEPT !.updates = Append(c.updates, line)]

\* Cache.AddUpdate
AddUpdate(c, line) ==
  LET u == parseUpdateType(line)
  IN  IF IsChunkKind(u.kind)
      THEN IF c.chunkType = u.kind
           THEN [c EXCEPT !.chunkText = c.chunkText \o u.text]
           ELSE [flushChunks(c) EXCEPT !.chunkType = u.kind,
                                       !.chunkText = u.text,
                                       !.chunkMeta = u.sessionID]
      ELSE LET d == flushChunks(c)
           IN  [d EXCEPT !.updates = Append(d.updates, line)]

\* the slots of the current cache.go that the cache.go under src/ lacks
ReplayMeta(c) == c.meta
ReplayPermission(c) == c.pendingPermission

\* variant: the updates are sent before the cached responses
ReplaySnapshot_updatesFirst(c) ==
  ReplayMeta(c) \o c.updates \o c.initResp \o c.newResp
  \o ReplayPermission(c)

\* Cache.Replay, the snapshot taken under c.mu after flushChunks: the lines
\* it then sends, in order
ReplaySnapshot(c) ==
  ReplayMeta(c) \o c.initResp \o c.newResp \o c.updates \o ReplayPermission(c)

\* ------------------------------------------------------------------ state
VARIABLES
  frontends,       \* Proxy.frontends: the membership list
  closed,          \* frontends whose inbound side has ended (done is closed)
  out,             \* per frontend: what Frontend.Send has written to it
  chan,            \* every FrontendMessage put on Proxy.fromFrontends
  chanHead,        \* how many of them readFromFrontends has taken
  agentIn,         \* the lines written to the agent's stdin
  agentExited,     \* "no"; "exited": the process has exited, its pipes are
                   \* closed; "stdout": its stdout has ended or failed, its
                   \* stdin is open
  answered,        \* proxy ids the agent has answered
  dispatched,      \* history: the list copies broadcastExcept has taken
  agentOut,        \* lines the agent has emitted
  pending,         \* Proxy.pending: proxy id -> PendingRequest
  nextID,          \* Proxy.nextID
  agentDead,       \* Proxy.agentDead
  pendingReverse,  \* Proxy.pendingReverse: the raw ids of open reverse calls
  cache,           \* the Cache
  aloop,           \* the readFromAgent goroutine
  floop,           \* the readFromFrontends goroutine
  replay,          \* per secondary frontend: its Cache.Replay goroutine
  bcasts           \* the detached broadcastExcept goroutines

vars == <<dispatched, frontends, closed, out, chan, chanHead, agentIn,
          agentExited, answered, agentOut, pending, nextID, agentDead,
          pendingReverse, cache, aloop, floop, replay, bcasts>>

\* a line written to a frontend: via names the producer ("replay", "live",
\* "synth", "resp", "err", "rev", "fallback"), req the tag of the request a
\* response answers (0 when there is none)
Written(line, via, req) == [line |-> line, via |-> via, req |-> req]

\* Frontend.Send: line and newline are written under f.mu
Send(o, f, line, via, req) ==
  [o EXCEPT ![f] = Append(@, Written(line, via, req))]

Members == {frontends[i] : i \in DOMAIN frontends}

\* the configured name notification (main: ACP_MULTIPLEX_NAME)
MetaLine == Line(NoId, "acp-multiplex/meta", NoParams, NoResult, NoError)

IdleAgentLoop ==
  [pc |-> "read", line |-> MetaLine, except |-> NoFe, via |-> "", fes |-> <<>>,
   reply |-> <<>>, must |-> {}]

IdleFrontendLoop ==
  [pc |-> "recv", kind |-> "", fe |-> NoFe, origID |-> NoId, tag |-> 0,
   proxyID |-> 0, line |-> MetaLine, blocks |-> <<>>, sessionId |-> "",
   notif |-> MetaLine, fes |-> <<>>]

NoReplay == [pc |-> "none", q |-> <<>>, snap |-> <<>>]

\* p.mu: every critical section of the proxy is inside one step, except the
\* one of sendToAgent, which holds the mutex (deferred Unlock) while its
\* Write waits for the agent to take the bytes
MuFree == floop.pc # "locked"

\* the number of lines the agent has emitted
agentCount == Len(agentOut)

\* NewProxy, NewCache and main: the primary is attached before Run
Start(c) ==
  /\ frontends = <<Primary>>
  /\ closed = {}
  /\ out = [f \in FeIds |-> <<>>]
  /\ chan = <<>>
  /\ chanHead = 0
  /\ agentIn = <<>>
  /\ agentExited = "no"
  /\ answered = {}
  /\ agentOut = <<>>
  /\ dispatched = <<>>
  /\ pending = <<>>
  /\ nextID = 1
  /\ agentDead = FALSE
  /\ pendingReverse = {}
  /\ cache = c
  /\ aloop = IdleAgentLoop
  /\ floop = IdleFrontendLoop
  /\ replay = [f \in Secondaries |-> NoReplay]
  /\ bcasts = <<>>

\* no name is configured
Init == Start(NewCache)

\* ACP_MULTIPLEX_NAME is set: main stores the meta notification
InitNamed == Start(SetMeta(NewCache, MetaLine))

\* the inputs taken so far
Events ==
  Cardinality({f \in Secondaries : replay[f].pc # "none"}) + Cardinality(closed)
  + Len(chan) + agentCount + (IF agentExited # "no" THEN 1 ELSE 0)

\* ---------------------------------------------------- frontends (clients)
Attached(f) == IF f = Primary THEN TRUE ELSE replay[f].pc # "none"

\* Proxy.AddFrontend for an accepted socket: append to the list, start
\* ReadLines and the done watcher, start Cache.Replay in its own goroutine
AddFrontend(f) ==
  /\ f \in Secondaries
  /\ ~Attached(f)
  /\ \A g \in Secondaries : g < f => Attached(g)
  /\ Events < MaxEvents
  /\ MuFree
  /\ frontends' = Append(frontends, f)
  /\ replay' = [replay EXCEPT ![f].pc = "start"]
  /\ UNCHANGED <<dispatched, closed, out, chan, chanHead, agentIn, agentExited,
                 answered, agentOut, pending, nextID, agentDead,
                 pendingReverse, cache, aloop, floop, bcasts>>

\* the lines a frontend writes; tag numbers them so that each is distinct
FeMethods ==
  {"initialize", "session/new", "session/prompt", "session/set_mode"}
FeReqIds == {"1", "\"a\""}
AgentReqIds == {"1"}

PromptBlocks(tag, n) == [i \in 1..n |-> TextBlock(<<tag, i>>)]

FeRequest(id, method, tag, n) ==
  Line(id, method,
       [NoParams EXCEPT
          !.sessionId = "s1",
          !.prompt = IF method = "session/prompt"
                     THEN PromptBlocks(tag, n) ELSE <<>>,
          !.modeId = IF method = "session/set_mode" THEN "plan" ELSE "",
          !.tag = tag],
       NoResult, NoError)

FeLines(tag) ==
  {FeRequest(id, m, tag, n) : id \in FeReqIds, m \in FeMethods,
                              n \in 1..MaxBlocks}
  \cup {Line(NoId, "session/cancel", [NoParams EXCEPT !.tag = tag],
             NoResult, NoError)}
  \cup {Line(id, "", NoParams, [NoResult EXCEPT !.echo = tag], NoError) :
          id \in AgentReqIds}

\* Frontend.ReadLines: one scanned line is put on the shared channel (Dead
\* is history: whether the agent was already marked dead at that moment)
ReadLines(f, line) ==
  /\ Attached(f)
  /\ f \notin closed
  /\ Events < MaxEvents
  /\ chan' = Append(chan, [Frontend |-> f, Line |-> line, Dead |-> agentDead])
  /\ UNCHANGED <<dispatched, frontends, closed, out, chanHead, agentIn,
                 agentExited, answered, agentOut, pending, nextID, agentDead,
                 pendingReverse, cache, aloop, floop, replay, bcasts>>

\* Frontend.ReadLines returns: the deferred close(f.done)
ReadLinesDone(f) ==
  /\ Attached(f)
  /\ f \notin closed
  /\ Events < MaxEvents
  /\ closed' = closed \cup {f}
  /\ UNCHANGED <<dispatched, frontends, out, chan, chanHead, agentIn,
                 agentExited, answered, agentOut, pending, nextID, agentDead,
                 pendingReverse, cache, aloop, floop, replay, bcasts>>

Without(list, f) == SelectSeq(list, LAMBDA g : g # f)

\* variant: the frontend is removed whether or not its done has fired
RemoveFrontend_any(f) ==
  /\ f \in Members
  /\ MuFree
  /\ frontends' = Without(frontends, f)
  /\ UNCHANGED <<dispatched, closed, out, chan, chanHead, agentIn, agentExited,
                 answered, agentOut, pending, nextID, agentDead,
                 pendingReverse, cache, aloop, floop, replay, bcasts>>

\* the watcher goroutine of AddFrontend: <-f.done, then RemoveFrontend
RemoveFrontend(f) ==
  /\ f \in closed
  /\ f \in Members
  /\ MuFree
  /\ frontends' = Without(frontends, f)
  /\ UNCHANGED <<dispatched, closed, out, chan, chanHead, agentIn, agentExited,
                 answered, agentOut, pending, nextID, agentDead,
                 pendingReverse, cache, aloop, floop, replay, bcasts>>

\* ------------------------------------------------------------ Cache.Replay
\* c.mu held: flushChunks, then the snapshot of the slots and of updates
ReplayStart(f) ==
  /\ replay[f].pc = "start"
  /\ cache' = flushChunks(cache)
  /\ LET q == ReplaySnapshot(cache')
     IN  replay' = [replay EXCEPT ![f] =
                      [pc |-> IF q = <<>> THEN "done" ELSE "send",
                       q |-> q, snap |-> q]]
  /\ UNCHANGED <<dispatched, frontends, closed, out, chan, chanHead, agentIn,
                 agentExited, answered, agentOut, pending, nextID, agentDead,
                 pendingReverse, aloop, floop, bcasts>>

\* one f.Send of the snapshot
ReplaySend(f) ==
  /\ replay[f].pc = "send"
  /\ out' = Send(out, f, Head(replay[f].q), "replay", 0)
  /\ replay' = [replay EXCEPT
                  ![f].q = Tail(@),
                  ![f].pc = IF Len(replay[f].q) = 1 THEN "done" ELSE "send"]
  /\ UNCHANGED <<dispatched, frontends, closed, chan, chanHead, agentIn,
                 agentExited, answered, agentOut, pending, nextID, agentDead,
                 pendingReverse, cache, aloop, floop, bcasts>>

\* ------------------------------------------------------- broadcastExcept
\* variant: the loop stops after the first frontend of the copy
broadcastTargets_first(list, except) ==
  IF Without(list, except) = <<>> THEN <<>>
  ELSE <<Head(Without(list, except))>>

\* the frontends of the copied list that the loop sends to: all but except
broadcastTargets(list, except) == Without(list, except)

\* history: a line, the copy of the list taken for it, and the goroutine
Dispatch(line, except, by) ==
  [line |-> line, fes |-> Without(frontends, except),
   except |-> except, by |-> by]

\* "go p.broadcastExcept(line, sender)": the copy of the list under p.mu
BroadcastSnapshot(i) ==
  /\ i \in DOMAIN bcasts
  /\ ~bcasts[i].snapped
  /\ MuFree
  /\ LET fes == broadcastTargets(frontends, bcasts[i].except)
     IN  bcasts' =
           IF fes = <<>>
           THEN SubSeq(bcasts, 1, i - 1) \o SubSeq(bcasts, i + 1, Len(bcasts))
           ELSE [bcasts EXCEPT ![i].snapped = TRUE, ![i].fes = fes]
  /\ dispatched' = Append(dispatched,
       Dispatch(bcasts[i].line, bcasts[i].except, "detached"))
  /\ UNCHANGED <<frontends, closed, out, chan, chanHead, agentIn, agentExited,
                 answered, agentOut, pending, nextID, agentDead,
                 pendingReverse, cache, aloop, floop, replay>>

\* one f.Send of the loop over the copy
BroadcastSend(i) ==
  /\ i \in DOMAIN bcasts
  /\ bcasts[i].snapped
  /\ out' = Send(out, Head(bcasts[i].fes), bcasts[i].line, "synth", 0)
  /\ bcasts' =
       IF Len(bcasts[i].fes) = 1
       THEN SubSeq(bcasts, 1, i - 1) \o SubSeq(bcasts, i + 1, Len(bcasts))
       ELSE [bcasts EXCEPT ![i].fes = Tail(@)]
  /\ UNCHANGED <<dispatched, frontends, closed, chan, chanHead, agentIn,
                 agentExited, answered, agentOut, pending, nextID, agentDead,
                 pendingReverse, cache, aloop, floop, replay>>

\* ------------------------------------------------------------- the agent
AgentKinds == {"agent_message_chunk", "agent_thought_chunk", "tool_call"}

\* the k-th line of the agent, when it is a notification
AgentUpdates(k) ==
  {SessionUpdate("s1", [NoUpdate EXCEPT !.sessionUpdate = kind,
                                        !.content = TextBlock(<<k>>)]) :
     kind \in AgentKinds}

AgentNotifications(k) ==
  AgentUpdates(k)
  \cup {Line(NoId, "other/notify", [NoParams EXCEPT !.tag = k],
             NoResult, NoError)}

IsRequest(line) == classify(parseEnvelope(line)) = "KindRequest"

\* the requests the agent has read and not answered
Unanswered ==
  {i \in DOMAIN agentIn : IsRequest(agentIn[i]) /\ agentIn[i].id \notin answered}

\* the agent's answer to a request: a result that echoes the request, with
\* a stopReason for session/prompt and a sessionId for session/new, or an
\* error
AgentResult(req) ==
  Line(req.id, "", NoParams,
       [stopReason |-> IF req.method = "session/prompt" THEN "end_turn" ELSE "",
        sessionId |-> IF req.method = "session/new" THEN "s1" ELSE "",
        echo |-> req.params.tag],
       NoError)

AgentError(req) ==
  Line(req.id, "", NoParams, NoResult, [code |-> -32000, message |-> "failed"])

AgentResults == {AgentResult(agentIn[i]) : i \in Unanswered}

AgentResponses ==
  AgentResults \cup {AgentError(agentIn[i]) : i \in Unanswered}

\* responses nothing asked for: a second answer, an id the agent has not
\* been sent yet, an id that is not a number
StrayIds ==
  answered \cup {MarshalInt(n) : n \in DOMAIN pending} \cup {"\"x\""}

AgentStrays ==
  {Line(id, "", NoParams, NoResult, NoError) :
     id \in StrayIds \ {agentIn[i].id : i \in Unanswered}}

\* reverse calls
AgentMethods == {"fs/read_text_file", "session/request_permission"}

AgentRequests(k) ==
  {Line(id, m, [NoParams EXCEPT !.sessionId = "s1", !.tag = k],
        NoResult, NoError) : id \in AgentReqIds, m \in AgentMethods}

AgentLines(k) ==
  AgentNotifications(k) \cup AgentResponses \cup AgentStrays
  \cup AgentRequests(k)

\* the agent process exits: its stdin is closed and its stdout ends
AgentExit ==
  /\ agentExited = "no"
  /\ Events < MaxEvents
  /\ agentExited' = "exited"
  /\ UNCHANGED <<dispatched, frontends, closed, out, chan, chanHead, agentIn,
                 answered, agentOut, pending, nextID, agentDead,
                 pendingReverse, cache, aloop, floop, replay, bcasts>>

\* the agent's stdout ends for the Scanner while the process lives on: it
\* closes its stdout, or writes a line longer than the Scanner's buffer
\* (Scan returns false with bufio.ErrTooLong)
AgentStdoutEnds ==
  /\ agentExited = "no"
  /\ Events < MaxEvents
  /\ agentExited' = "stdout"
  /\ UNCHANGED <<dispatched, frontends, closed, out, chan, chanHead, agentIn,
                 answered, agentOut, pending, nextID, agentDead,
                 pendingReverse, cache, aloop, floop, replay, bcasts>>

\* ---------------------------------------------------- Proxy.readFromAgent
\* variant: the entry stays in the map
Delete_keep(map, key) == map

\* sync.Map Delete and LoadAndDelete
Delete(map, key) == [k \in DOMAIN map \ {key} |-> map[k]]

PendingRequest(originalID, frontend, method, params) ==
  [originalID |-> originalID, frontend |-> frontend, method |-> method,
   params |-> params]

\* variant: the first frontend of the list, primary or not
sendToPrimary_head(o, line, via) ==
  IF frontends # <<>> THEN Send(o, Head(frontends), line, via, 0) ELSE o

\* sendToPrimary: the first frontend of the list with primary set
sendToPrimary(o, line, via) ==
  IF Primary \in Members THEN Send(o, Primary, line, via, 0) ELSE o

\* the notification synthesizeTurnComplete marshals (none when the response
\* has no result.stopReason)
turnComplete(responseLine) ==
  IF responseLine.result.stopReason = "" THEN NoLine
  ELSE <<SessionUpdate(responseLine.result.sessionId,
           [NoUpdate EXCEPT !.sessionUpdate = "turn_complete",
                            !.stopReason = responseLine.result.stopReason])>>

\* variant: the notification carries no mode id
modeChange_noMode(pr) ==
  SessionUpdate(pr.params.sessionId,
    [NoUpdate EXCEPT !.sessionUpdate = "current_mode_update"])

\* the notification synthesizeModeChange marshals from the request params
modeChange(pr) ==
  SessionUpdate(pr.params.sessionId,
    [NoUpdate EXCEPT !.sessionUpdate = "current_mode_update",
                     !.currentModeId = pr.params.modeId])

\* variant: every response goes to the primary frontend
responseFor_primary(pr, line) ==
  [fe |-> Primary, line |-> restoreID(line, pr.originalID),
   req |-> pr.params.tag]

\* what routeResponseToFrontend sends to pr.frontend at its end
responseFor(pr, line) ==
  [fe |-> pr.frontend, line |-> restoreID(line, pr.originalID),
   req |-> pr.params.tag]

\* variant: the notification is broadcast and not cached
agentNotification_noCache(line) ==
  /\ cache' = cache
  /\ aloop' = [IdleAgentLoop EXCEPT !.pc = "snap", !.line = line,
                                    !.via = "live"]
  /\ UNCHANGED <<dispatched, out, pending, pendingReverse, bcasts>>

\* case KindNotification: cache.AddUpdate for session/update; broadcast
\* follows
agentNotification(line) ==
  /\ cache' = IF line.method = "session/update"
              THEN AddUpdate(cache, line) ELSE cache
  /\ aloop' = [IdleAgentLoop EXCEPT !.pc = "snap", !.line = line,
                                    !.via = "live"]
  /\ UNCHANGED <<dispatched, out, pending, pendingReverse, bcasts>>

\* variant: a response with an unknown id goes to the primary frontend
routeResponseToFrontend_fallback(env, line) ==
  LET id == UnmarshalInt(env.ID)
      proxyID == id[2]
  IN  IF ~id[1]
      THEN /\ MuFree
           /\ out' = sendToPrimary(out, line, "fallback")
           /\ UNCHANGED <<pending, pendingReverse, cache, aloop, bcasts>>
      ELSE IF proxyID \notin DOMAIN pending
      THEN /\ MuFree
           /\ out' = sendToPrimary(out, line, "fallback")
           /\ UNCHANGED <<pending, pendingReverse, cache, aloop, bcasts>>
      ELSE
        LET pr == pending[proxyID]
            tc == turnComplete(line)
        IN  /\ pending' = Delete(pending, proxyID)
            /\ cache' =
                 CASE pr.method = "initialize" ->
                        SetInitResponse(cache, rewriteID(line, 0))
                   [] pr.method = "session/new" ->
                        SetNewResponse(cache, rewriteID(line, 0))
                   [] pr.method = "session/prompt" /\ tc # NoLine ->
                        AddUpdate(cache, tc[1])
                   [] pr.method = "session/set_mode" ->
                        AddUpdate(cache, modeChange(pr))
                   [] OTHER -> cache
            /\ bcasts' =
                 IF pr.method = "session/prompt" /\ tc # NoLine
                 THEN Append(bcasts, [line |-> tc[1], except |-> pr.frontend,
                                      fes |-> <<>>, snapped |-> FALSE])
                 ELSE bcasts
            /\ aloop' =
                 IF pr.method = "session/set_mode"
                 THEN [IdleAgentLoop EXCEPT
                         !.pc = "snap", !.line = modeChange(pr),
                         !.except = pr.frontend, !.via = "synth",
                         !.reply = <<responseFor(pr, line)>>]
                 ELSE [IdleAgentLoop EXCEPT
                         !.pc = "reply", !.reply = <<responseFor(pr, line)>>]
            /\ UNCHANGED <<dispatched, out, pendingReverse>>

\* case KindResponse: routeResponseToFrontend up to its final Send.  The
\* LoadAndDelete and the cache call that follows it are one step: nothing
\* another goroutine does between them reads the deleted entry.
routeResponseToFrontend(env, line) ==
  LET id == UnmarshalInt(env.ID)
      proxyID == id[2]
  IN  IF ~id[1]
      THEN /\ MuFree
           /\ out' = sendToPrimary(out, line, "fallback")
           /\ UNCHANGED <<pending, pendingReverse, cache, aloop, bcasts>>
      ELSE IF proxyID \notin DOMAIN pending
      THEN UNCHANGED <<out, pending, pendingReverse, cache, aloop, bcasts>>
      ELSE
        LET pr == pending[proxyID]
            tc == turnComplete(line)
        IN  /\ pending' = Delete(pending, proxyID)
            /\ cache' =
                 CASE pr.method = "initialize" ->
                        SetInitResponse(cache, rewriteID(line, 0))
                   [] pr.method = "session/new" ->
                        SetNewResponse(cache, rewriteID(line, 0))
                   [] pr.method = "session/prompt" /\ tc # NoLine ->
                        AddUpdate(cache, tc[1])
                   [] pr.method = "session/set_mode" ->
                        AddUpdate(cache, modeChange(pr))
                   [] OTHER -> cache
            /\ bcasts' =
                 IF pr.method = "session/prompt" /\ tc # NoLine
                 THEN Append(bcasts, [line |-> tc[1], except |-> pr.frontend,
                                      fes |-> <<>>, snapped |-> FALSE])
                 ELSE bcasts
            /\ aloop' =
                 IF pr.method = "session/set_mode"
                 THEN [IdleAgentLoop EXCEPT
                         !.pc = "snap", !.line = modeChange(pr),
                         !.except = pr.frontend, !.via = "synth",
                         !.reply = <<responseFor(pr, line)>>]
                 ELSE [IdleAgentLoop EXCEPT
                         !.pc = "reply", !.reply = <<responseFor(pr, line)>>]
            /\ UNCHANGED <<dispatched, out, pendingReverse>>

\* strings.HasPrefix over the method names of the model
HasPrefix(method, prefix) ==
  <<method, prefix>> \in {<<"fs/read_text_file", "fs/">>,
                          <<"fs/write_text_file", "fs/">>,
                          <<"terminal/create", "terminal/">>}

\* the store of an unresolved session/request_permission by the current
\* proxy (the routeReverseCall under src/ has no such store)
storePermission(c, line) ==
  IF line.method = "session/request_permission"
  THEN SetPendingPermission(c, line) ELSE c

\* variant: every reverse call goes to sendToPrimary
routeReverseCall_primary(env, line) ==
  /\ pendingReverse' = IF env.ID # NoId
                       THEN pendingReverse \cup {env.ID} ELSE pendingReverse
  /\ cache' = storePermission(cache, line)
  /\ aloop' = [IdleAgentLoop EXCEPT !.pc = "primary", !.line = line,
                                    !.via = "rev"]
  /\ UNCHANGED <<dispatched, out, pending, bcasts>>

\* case KindRequest: routeReverseCall up to its send
routeReverseCall(env, line) ==
  /\ pendingReverse' = IF env.ID # NoId
                       THEN pendingReverse \cup {env.ID} ELSE pendingReverse
  /\ cache' = storePermission(cache, line)
  /\ aloop' =
       IF HasPrefix(env.Method, "fs/") \/ HasPrefix(env.Method, "terminal/")
       THEN [IdleAgentLoop EXCEPT !.pc = "primary", !.line = line,
                                  !.via = "rev"]
       ELSE [IdleAgentLoop EXCEPT !.pc = "snap", !.line = line, !.via = "rev"]
  /\ UNCHANGED <<dispatched, out, pending, bcasts>>

\* one iteration of the Scan loop, up to the first send of its handler
AgentRead(line) ==
  /\ aloop.pc = "read"
  /\ agentExited = "no"
  /\ Events < MaxEvents
  /\ agentOut' = Append(agentOut, line)
  /\ answered' = IF classify(parseEnvelope(line)) = "KindResponse"
                 THEN answered \cup {line.id} ELSE answered
  /\ LET env == parseEnvelope(line)
         kind == classify(env)
     IN  CASE kind = "KindNotification" -> agentNotification(line)
           [] kind = "KindResponse" -> routeResponseToFrontend(env, line)
           [] kind = "KindRequest" -> routeReverseCall(env, line)
           [] OTHER -> UNCHANGED <<out, pending, pendingReverse, cache, aloop,
                                   bcasts>>
  /\ UNCHANGED <<dispatched, frontends, closed, chan, chanHead, agentIn,
                 agentExited, nextID, agentDead, floop, replay>>

\* where the agent loop goes when a broadcast has no send left
AfterBroadcast(a) ==
  IF a.reply # <<>> THEN [a EXCEPT !.pc = "reply", !.fes = <<>>]
  ELSE IdleAgentLoop

\* broadcastExcept in the agent loop: the copy of the list under p.mu
AgentBroadcastSnapshot ==
  /\ aloop.pc = "snap"
  /\ MuFree
  /\ LET fes == broadcastTargets(frontends, aloop.except)
     IN  aloop' = IF fes = <<>> THEN AfterBroadcast(aloop)
                  ELSE [aloop EXCEPT !.pc = "send", !.fes = fes]
  /\ dispatched' =
       Append(dispatched, Dispatch(aloop.line, aloop.except, "agent"))
  /\ UNCHANGED <<frontends, closed, out, chan, chanHead, agentIn, agentExited,
                 answered, agentOut, pending, nextID, agentDead,
                 pendingReverse, cache, floop, replay, bcasts>>

\* broadcastExcept in the agent loop: one f.Send
AgentBroadcastSend ==
  /\ aloop.pc = "send"
  /\ out' = Send(out, Head(aloop.fes), aloop.line, aloop.via, 0)
  /\ aloop' = IF Len(aloop.fes) = 1 THEN AfterBroadcast(aloop)
              ELSE [aloop EXCEPT !.fes = Tail(@)]
  /\ UNCHANGED <<dispatched, frontends, closed, chan, chanHead, agentIn,
                 agentExited, answered, agentOut, pending, nextID, agentDead,
                 pendingReverse, cache, floop, replay, bcasts>>

\* sendToPrimary for an fs/ or terminal/ reverse call
AgentSendToPrimary ==
  /\ aloop.pc = "primary"
  /\ MuFree
  /\ out' = sendToPrimary(out, aloop.line, aloop.via)
  /\ aloop' = IdleAgentLoop
  /\ UNCHANGED <<dispatched, frontends, closed, chan, chanHead, agentIn,
                 agentExited, answered, agentOut, pending, nextID, agentDead,
                 pendingReverse, cache, floop, replay, bcasts>>

\* routeResponseToFrontend: pr.frontend.Send(rewritten)
AgentReply ==
  /\ aloop.pc = "reply"
  /\ LET r == aloop.reply[1]
     IN  out' = Send(out, r.fe, r.line, "resp", r.req)
  /\ aloop' = IdleAgentLoop
  /\ UNCHANGED <<dispatched, frontends, closed, chan, chanHead, agentIn,
                 agentExited, answered, agentOut, pending, nextID, agentDead,
                 pendingReverse, cache, floop, replay, bcasts>>

\* Scan returns false: agentDead.Store(true), then pending.Range begins.
\* must holds the entries present now, which Range is bound to visit;
\* entries stored while it runs may be visited or not.
AgentEOF ==
  /\ aloop.pc = "read"
  /\ agentExited # "no"
  /\ agentDead' = TRUE
  /\ aloop' = IF DOMAIN pending = {} THEN [IdleAgentLoop EXCEPT !.pc = "done"]
              ELSE [IdleAgentLoop EXCEPT !.pc = "drain", !.must = DOMAIN pending]
  /\ UNCHANGED <<dispatched, frontends, closed, out, chan, chanHead, agentIn,
                 agentExited, answered, agentOut, pending, nextID,
                 pendingReverse, cache, floop, replay, bcasts>>

\* one call of the Range callback: Delete, marshal the error, Send
DrainOne(proxyID) ==
  /\ aloop.pc = "drain"
  /\ proxyID \in DOMAIN pending
  /\ LET pr == pending[proxyID]
     IN  out' = Send(out, pr.frontend, errResp(pr.originalID), "err",
                     pr.params.tag)
  /\ pending' = Delete(pending, proxyID)
  /\ aloop' = [aloop EXCEPT !.must = @ \ {proxyID}]
  /\ UNCHANGED <<dispatched, frontends, closed, chan, chanHead, agentIn,
                 agentExited, answered, agentOut, nextID, agentDead,
                 pendingReverse, cache, floop, replay, bcasts>>

\* Range returns
DrainDone ==
  /\ aloop.pc = "drain"
  /\ aloop.must \cap DOMAIN pending = {}
  /\ aloop' = [IdleAgentLoop EXCEPT !.pc = "done"]
  /\ UNCHANGED <<dispatched, frontends, closed, out, chan, chanHead, agentIn,
                 agentExited, answered, agentOut, pending, nextID, agentDead,
                 pendingReverse, cache, floop, replay, bcasts>>

\* ------------------------------------------------ Proxy.readFromFrontends
\* the notification synthesizeUserMessage marshals for one prompt block
userMessage(sessionId, block) ==
  SessionUpdate(sessionId, [NoUpdate EXCEPT !.sessionUpdate = "user_message_chunk",
                                            !.content = block])

\* the forwarded line of handleFrontendRequest
forwarded(line, proxyID) == rewriteID(line, proxyID)

\* variant: the counter is read and not advanced
handleFrontendRequest_reuse(f, env, line) ==
  LET proxyID == nextID
  IN  /\ nextID' = nextID
      /\ pending' = pending @@
           (proxyID :> PendingRequest(env.ID, f, env.Method, env.Params))
      /\ floop' = [IdleFrontendLoop EXCEPT
           !.pc = IF env.Method = "session/prompt" /\ env.Params.prompt # <<>>
                  THEN "um" ELSE "load",
           !.kind = "req", !.fe = f, !.origID = env.ID,
           !.tag = env.Params.tag, !.proxyID = proxyID,
           !.line = forwarded(line, proxyID),
           !.blocks = IF env.Method = "session/prompt"
                      THEN env.Params.prompt ELSE <<>>,
           !.sessionId = env.Params.sessionId]
      /\ UNCHANGED <<dispatched, pendingReverse, cache>>

\* variant: a session/prompt is forwarded without synthesizeUserMessage
handleFrontendRequest_noSynth(f, env, line) ==
  LET proxyID == nextID
  IN  /\ nextID' = nextID + 1
      /\ pending' = pending @@
           (proxyID :> PendingRequest(env.ID, f, env.Method, env.Params))
      /\ floop' = [IdleFrontendLoop EXCEPT
           !.pc = "load",
           !.kind = "req", !.fe = f, !.origID = env.ID,
           !.tag = env.Params.tag, !.proxyID = proxyID,
           !.line = forwarded(line, proxyID),
           !.sessionId = env.Params.sessionId]
      /\ UNCHANGED <<dispatched, pendingReverse, cache>>

\* handleFrontendRequest: nextID.Add, pending.Store, rewriteID
handleFrontendRequest(f, env, line) ==
  LET proxyID == nextID
  IN  /\ nextID' = nextID + 1
      /\ pending' = pending @@
           (proxyID :> PendingRequest(env.ID, f, env.Method, env.Params))
      /\ floop' = [IdleFrontendLoop EXCEPT
           !.pc = IF env.Method = "session/prompt" /\ env.Params.prompt # <<>>
                  THEN "um" ELSE "load",
           !.kind = "req", !.fe = f, !.origID = env.ID,
           !.tag = env.Params.tag, !.proxyID = proxyID,
           !.line = forwarded(line, proxyID),
           !.blocks = IF env.Method = "session/prompt"
                      THEN env.Params.prompt ELSE <<>>,
           !.sessionId = env.Params.sessionId]
      /\ UNCHANGED <<dispatched, pendingReverse, cache>>

\* the clearing of the pending permission by the current proxy when the
\* accepted response answers it (the readFromFrontends under src/ has none)
clearPermission(c, idKey) ==
  IF c.pendingPermission # NoLine /\ c.pendingPermission[1].id = idKey
  THEN ClearPendingPermission(c) ELSE c

\* variant: the response is forwarded whether or not LoadAndDelete found
\* the key
reverseResponse_always(f, env, line) ==
  /\ pendingReverse' = pendingReverse \ {env.ID}
  /\ cache' = clearPermission(cache, env.ID)
  /\ floop' = [IdleFrontendLoop EXCEPT !.pc = "load", !.kind = "resp",
                                       !.fe = f, !.line = line]
  /\ UNCHANGED <<dispatched, pending, nextID>>

\* variant: an accepted response leaves the cache as it is
reverseResponse_noClear(f, env, line) ==
  IF env.ID \in pendingReverse
  THEN /\ pendingReverse' = pendingReverse \ {env.ID}
       /\ floop' = [IdleFrontendLoop EXCEPT !.pc = "load", !.kind = "resp",
                                            !.fe = f, !.line = line]
       /\ UNCHANGED <<dispatched, pending, nextID, cache>>
  ELSE UNCHANGED <<pending, nextID, pendingReverse, cache, floop>>

\* variant: a response that finds no key leaves its id in the table
reverseResponse_record(f, env, line) ==
  IF env.ID \in pendingReverse
  THEN /\ pendingReverse' = pendingReverse \ {env.ID}
       /\ cache' = clearPermission(cache, env.ID)
       /\ floop' = [IdleFrontendLoop EXCEPT !.pc = "load", !.kind = "resp",
                                            !.fe = f, !.line = line]
       /\ UNCHANGED <<dispatched, pending, nextID>>
  ELSE /\ pendingReverse' = pendingReverse \cup {env.ID}
       /\ UNCHANGED <<pending, nextID, cache, floop>>

\* case KindResponse: pendingReverse.LoadAndDelete; first response wins
reverseResponse(f, env, line) ==
  IF env.ID \in pendingReverse
  THEN /\ pendingReverse' = pendingReverse \ {env.ID}
       /\ cache' = clearPermission(cache, env.ID)
       /\ floop' = [IdleFrontendLoop EXCEPT !.pc = "load", !.kind = "resp",
                                            !.fe = f, !.line = line]
       /\ UNCHANGED <<dispatched, pending, nextID>>
  ELSE UNCHANGED <<pending, nextID, pendingReverse, cache, floop>>

\* one message taken from fromFrontends, up to the first call that another
\* goroutine can observe
FrontendRecv ==
  /\ floop.pc = "recv"
  /\ chanHead < Len(chan)
  /\ chanHead' = chanHead + 1
  /\ LET msg == chan[chanHead + 1]
         env == parseEnvelope(msg.Line)
         kind == classify(env)
     IN  CASE kind = "KindRequest" ->
                handleFrontendRequest(msg.Frontend, env, msg.Line)
           [] kind = "KindNotification" ->
                /\ floop' = [IdleFrontendLoop EXCEPT
                               !.pc = "load", !.kind = "notif",
                               !.fe = msg.Frontend, !.line = msg.Line]
                /\ UNCHANGED <<pending, nextID, pendingReverse, cache>>
           [] kind = "KindResponse" ->
                reverseResponse(msg.Frontend, env, msg.Line)
           [] OTHER ->
                UNCHANGED <<pending, nextID, pendingReverse, cache, floop>>
  /\ UNCHANGED <<dispatched, frontends, closed, out, chan, agentIn,
                 agentExited, answered, agentOut, agentDead, aloop, replay,
                 bcasts>>

\* synthesizeUserMessage, one block: cache.AddUpdate(line)
UserMessageAdd ==
  /\ floop.pc = "um"
  /\ LET notif == userMessage(floop.sessionId, Head(floop.blocks))
     IN  /\ cache' = AddUpdate(cache, notif)
         /\ floop' = [floop EXCEPT !.pc = "snap", !.notif = notif,
                                   !.blocks = Tail(@)]
  /\ UNCHANGED <<dispatched, frontends, closed, out, chan, chanHead, agentIn,
                 agentExited, answered, agentOut, pending, nextID, agentDead,
                 pendingReverse, aloop, replay, bcasts>>

\* where the frontend loop goes when a broadcast has no send left
AfterUserMessage(l) ==
  [l EXCEPT !.pc = IF l.blocks # <<>> THEN "um" ELSE "load", !.fes = <<>>,
            !.notif = MetaLine]

\* synthesizeUserMessage: broadcastExcept(line, sender), the copy of the list
UserMessageSnapshot ==
  /\ floop.pc = "snap"
  /\ LET fes == broadcastTargets(frontends, floop.fe)
     IN  floop' = IF fes = <<>> THEN AfterUserMessage(floop)
                  ELSE [floop EXCEPT !.pc = "send", !.fes = fes]
  /\ dispatched' =
       Append(dispatched, Dispatch(floop.notif, floop.fe, "frontends"))
  /\ UNCHANGED <<frontends, closed, out, chan, chanHead, agentIn, agentExited,
                 answered, agentOut, pending, nextID, agentDead,
                 pendingReverse, cache, aloop, replay, bcasts>>

\* synthesizeUserMessage: broadcastExcept(line, sender), one f.Send
UserMessageSend ==
  /\ floop.pc = "send"
  /\ out' = Send(out, Head(floop.fes), floop.notif, "synth", 0)
  /\ floop' = IF Len(floop.fes) = 1 THEN AfterUserMessage(floop)
              ELSE [floop EXCEPT !.fes = Tail(@)]
  /\ UNCHANGED <<dispatched, frontends, closed, chan, chanHead, agentIn,
                 agentExited, answered, agentOut, pending, nextID, agentDead,
                 pendingReverse, cache, aloop, replay, bcasts>>

\* variant: a failed sendToAgent is only logged, for requests too
AfterSendError_logOnly(l) == IdleFrontendLoop

\* where the frontend loop goes when sendToAgent returns an error: to the
\* error path of handleFrontendRequest, or (a log line only) to the next
\* message
AfterSendError(l) ==
  IF l.kind = "req" THEN [l EXCEPT !.pc = "fail"] ELSE IdleFrontendLoop

\* sendToAgent: p.agentDead.Load()
SendToAgentLoad ==
  /\ floop.pc = "load"
  /\ floop' = IF agentDead THEN AfterSendError(floop)
              ELSE [floop EXCEPT !.pc = "write"]
  /\ UNCHANGED <<dispatched, frontends, closed, out, chan, chanHead, agentIn,
                 agentExited, answered, agentOut, pending, nextID, agentDead,
                 pendingReverse, cache, aloop, replay, bcasts>>

\* sendToAgent: p.mu.Lock(), and agentIn.Write waits: the pipe to the agent
\* is full and the agent is not reading its stdin
SendToAgentBlocks ==
  /\ floop.pc = "write"
  /\ agentExited # "exited"
  /\ floop' = [floop EXCEPT !.pc = "locked"]
  /\ UNCHANGED <<dispatched, frontends, closed, out, chan, chanHead, agentIn,
                 agentExited, answered, agentOut, pending, nextID, agentDead,
                 pendingReverse, cache, aloop, replay, bcasts>>

\* variant: the line is put in front of what the agent has not read yet
SendToAgentWrite_prepend ==
  /\ floop.pc \in {"write", "locked"}
  /\ IF agentExited = "exited"
     THEN /\ floop' = AfterSendError(floop)
          /\ UNCHANGED agentIn
     ELSE /\ agentIn' = <<floop.line>> \o agentIn
          /\ floop' = IdleFrontendLoop
  /\ UNCHANGED <<dispatched, frontends, closed, out, chan, chanHead,
                 agentExited, answered, agentOut, pending, nextID, agentDead,
                 pendingReverse, cache, aloop, replay, bcasts>>

\* sendToAgent: the two Writes under p.mu, at once or after a wait; they
\* fail once the agent has closed its stdin
SendToAgentWrite ==
  /\ floop.pc \in {"write", "locked"}
  /\ IF agentExited = "exited"
     THEN /\ floop' = AfterSendError(floop)
          /\ UNCHANGED agentIn
     ELSE /\ agentIn' = Append(agentIn, floop.line)
          /\ floop' = IdleFrontendLoop
  /\ UNCHANGED <<dispatched, frontends, closed, out, chan, chanHead,
                 agentExited, answered, agentOut, pending, nextID, agentDead,
                 pendingReverse, cache, aloop, replay, bcasts>>

\* handleFrontendRequest, sendToAgent failed: pending.Delete, f.Send(errResp)
SendToAgentFailed ==
  /\ floop.pc = "fail"
  /\ pending' = Delete(pending, floop.proxyID)
  /\ out' = Send(out, floop.fe, errResp(floop.origID), "err", floop.tag)
  /\ floop' = IdleFrontendLoop
  /\ UNCHANGED <<dispatched, frontends, closed, chan, chanHead, agentIn,
                 agentExited, answered, agentOut, nextID, agentDead,
                 pendingReverse, cache, aloop, replay, bcasts>>

\* ------------------------------------------- Frontend.Send, write by write
\* the second Write of Send
Newline == Line(NoId, "\n", NoParams, NoResult, NoError)

\* variant: Send takes no mutex
FMuFree_none(f) == TRUE

\* f.mu: held by the producer that is between the two Writes of its Send
FMuFree(f) ==
  /\ IF f \in Secondaries THEN replay[f].pc # "nl" ELSE TRUE
  /\ ~(aloop.pc = "nl" /\ Head(aloop.fes) = f)

\* Cache.Replay, f.Send: f.mu.Lock() and writer.Write(line)
ReplayWriteLine(f) ==
  /\ replay[f].pc = "send"
  /\ FMuFree(f)
  /\ out' = Send(out, f, Head(replay[f].q), "replay", 0)
  /\ replay' = [replay EXCEPT ![f].pc = "nl"]
  /\ UNCHANGED <<dispatched, frontends, closed, chan, chanHead, agentIn,
                 agentExited, answered, agentOut, pending, nextID, agentDead,
                 pendingReverse, cache, aloop, floop, bcasts>>

\* Cache.Replay, f.Send: writer.Write("\n") and the deferred Unlock
ReplayWriteNewline(f) ==
  /\ replay[f].pc = "nl"
  /\ out' = Send(out, f, Newline, "replay", 0)
  /\ replay' = [replay EXCEPT
                  ![f].q = Tail(@),
                  ![f].pc = IF Len(replay[f].q) = 1 THEN "done" ELSE "send"]
  /\ UNCHANGED <<dispatched, frontends, closed, chan, chanHead, agentIn,
                 agentExited, answered, agentOut, pending, nextID, agentDead,
                 pendingReverse, cache, aloop, floop, bcasts>>

\* broadcastExcept in the agent loop, f.Send: f.mu.Lock() and
\* writer.Write(line)
AgentWriteLine ==
  /\ aloop.pc = "send"
  /\ FMuFree(Head(aloop.fes))
  /\ out' = Send(out, Head(aloop.fes), aloop.line, aloop.via, 0)
  /\ aloop' = [aloop EXCEPT !.pc = "nl"]
  /\ UNCHANGED <<dispatched, frontends, closed, chan, chanHead, agentIn,
                 agentExited, answered, agentOut, pending, nextID, agentDead,
                 pendingReverse, cache, floop, replay, bcasts>>

\* broadcastExcept in the agent loop, f.Send: writer.Write("\n") and the
\* deferred Unlock
AgentWriteNewline ==
  /\ aloop.pc = "nl"
  /\ out' = Send(out, Head(aloop.fes), Newline, aloop.via, 0)
  /\ aloop' = IF Len(aloop.fes) = 1 THEN AfterBroadcast(aloop)
              ELSE [aloop EXCEPT !.pc = "send", !.fes = Tail(@)]
  /\ UNCHANGED <<dispatched, frontends, closed, chan, chanHead, agentIn,
                 agentExited, answered, agentOut, pending, nextID, agentDead,
                 pendingReverse, cache, floop, replay, bcasts>>

\* ---------------------------------------------------------- specification
\* the steps of the goroutines, by the input that starts them
Clients(lines) ==
  \/ \E f \in Secondaries : AddFrontend(f)
  \/ \E f \in FeIds : \E line \in lines : ReadLines(f, line)

Replays ==
  \/ \E f \in Secondaries : ReplayStart(f)
  \/ \E f \in Secondaries : ReplaySend(f)

Departures ==
  \/ \E f \in FeIds : ReadLinesDone(f)
  \/ \E f \in FeIds : RemoveFrontend(f)

Detached ==
  \/ \E i \in DOMAIN bcasts : BroadcastSnapshot(i)
  \/ \E i \in DOMAIN bcasts : BroadcastSend(i)

AgentBroadcast ==
  \/ AgentBroadcastSnapshot
  \/ AgentBroadcastSend

AgentDeath ==
  \/ AgentExit
  \/ AgentStdoutEnds
  \/ AgentEOF
  \/ \E n \in DOMAIN pending : DrainOne(n)
  \/ DrainDone

SendToAgent ==
  \/ SendToAgentLoad
  \/ SendToAgentWrite

UserMessage ==
  \/ UserMessageAdd
  \/ UserMessageSnapshot
  \/ UserMessageSend

\* requests, their responses and the death of the agent
RouteFeLines(tag) ==
  {FeRequest(id, "initialize", tag, 1) : id \in FeReqIds}

RouteNext ==
  \/ Clients(RouteFeLines(Len(chan) + 1))
  \/ Replays
  \/ \E line \in AgentResponses \cup AgentStrays : AgentRead(line)
  \/ AgentReply
  \/ AgentDeath
  \/ FrontendRecv
  \/ SendToAgent
  \/ SendToAgentFailed

SpecRoute == Init /\ [][RouteNext]_vars

\* the agent's notifications fanned out to frontends that come and go
FanNext ==
  \/ \E f \in Secondaries : AddFrontend(f)
  \/ Replays
  \/ Departures
  \/ \E line \in AgentUpdates(agentCount + 1) : AgentRead(line)
  \/ AgentBroadcast

SpecFan == Init /\ [][FanNext]_vars

\* the session a joiner is replayed: the primary's initialize and
\* session/new, the agent's updates, and a permission request that the
\* primary may answer
ReplayFeLines(tag) ==
  {FeRequest("1", m, tag, 1) : m \in {"initialize", "session/new"}}
  \cup {Line("1", "", NoParams, [NoResult EXCEPT !.echo = tag], NoError)}

ReplayAgentLines(k) ==
  AgentResults
  \cup {u \in AgentUpdates(k) :
          u.params.update.sessionUpdate = "agent_message_chunk"}
  \cup {r \in AgentRequests(k) : r.method = "session/request_permission"}

ReplayNext ==
  \/ \E f \in Secondaries : AddFrontend(f)
  \/ \E line \in ReplayFeLines(Len(chan) + 1) : ReadLines(Primary, line)
  \/ Replays
  \/ \E line \in ReplayAgentLines(agentCount + 1) : AgentRead(line)
  \/ AgentBroadcast
  \/ AgentReply
  \/ FrontendRecv
  \/ SendToAgent

SpecReplay == InitNamed /\ [][ReplayNext]_vars

\* prompts, the notifications synthesized from them and from their
\* responses, and one frontend that joins meanwhile
SynthFeLines(tag) ==
  {FeRequest("1", "session/prompt", tag, n) : n \in 1..MaxBlocks}

SynthNext ==
  \/ AddFrontend(2)
  \/ \E f \in FeIds : \E line \in SynthFeLines(Len(chan) + 1) :
       ReadLines(f, line)
  \/ Replays
  \/ Detached
  \/ \E line \in AgentResults : AgentRead(line)
  \/ AgentReply
  \/ FrontendRecv
  \/ UserMessage
  \/ SendToAgent

SpecSynth == Init /\ [][SynthNext]_vars

\* reverse calls: the agent's requests, with ids it does not reuse while a
\* call is outstanding, and the responses of the frontends that were sent
\* the call
Outstanding(id) ==
  Cardinality({k \in DOMAIN agentOut :
                 IsRequest(agentOut[k]) /\ agentOut[k].id = id})
  > Cardinality({i \in DOMAIN agentIn :
                   ~IsRequest(agentIn[i]) /\ agentIn[i].id = id})

ReverseCalls(k) == {r \in AgentRequests(k) : ~Outstanding(r.id)}

\* the agent's lines of this scenario: reverse calls and tool_call updates
ReverseAgentLines(k) ==
  ReverseCalls(k)
  \cup {u \in AgentUpdates(k) : u.params.update.sessionUpdate = "tool_call"}

Solicited(f) ==
  {out[f][i].line.id : i \in {j \in DOMAIN out[f] : IsRequest(out[f][j].line)}}

ReverseFeLines(f, tag) ==
  {Line(id, "", NoParams, [NoResult EXCEPT !.echo = tag], NoError) :
     id \in Solicited(f)}

ReverseNext ==
  \/ \E f \in Secondaries : AddFrontend(f)
  \/ \E f \in FeIds : \E line \in ReverseFeLines(f, Len(chan) + 1) :
       ReadLines(f, line)
  \/ Replays
  \/ Departures
  \/ \E line \in ReverseAgentLines(agentCount + 1) : AgentRead(line)
  \/ AgentBroadcast
  \/ AgentSendToPrimary
  \/ FrontendRecv
  \/ SendToAgent

SpecReverse == Init /\ [][ReverseNext]_vars

\* mode changes: session/new and session/set_mode requests with either
\* mode, the agent's answers (results and errors) and its tool_call updates
ModeIds == {"plan", "code"}

ModeFeLines(tag) ==
  {FeRequest("1", "session/new", tag, 1)}
  \cup {[FeRequest("1", "session/set_mode", tag, 1)
          EXCEPT !.params.modeId = mode] : mode \in ModeIds}

ModeAgentLines(k) ==
  AgentResponses
  \cup {u \in AgentUpdates(k) : u.params.update.sessionUpdate = "tool_call"}

ModeNext ==
  \/ \E f \in Secondaries : AddFrontend(f)
  \/ \E f \in FeIds : \E line \in ModeFeLines(Len(chan) + 1) :
       ReadLines(f, line)
  \/ Replays
  \/ \E line \in ModeAgentLines(agentCount + 1) : AgentRead(line)
  \/ AgentBroadcast
  \/ AgentReply
  \/ FrontendRecv
  \/ SendToAgent

SpecMode == Init /\ [][ModeNext]_vars

\* the primary's initialize and session/new requests, repeated, the
\* agent's answers (results and errors), and frontends that join
SessionFeLines(tag) ==
  {FeRequest("1", m, tag, 1) : m \in {"initialize", "session/new"}}

SessionNext ==
  \/ \E f \in Secondaries : AddFrontend(f)
  \/ \E line \in SessionFeLines(Len(chan) + 1) : ReadLines(Primary, line)
  \/ Replays
  \/ \E line \in AgentResponses : AgentRead(line)
  \/ AgentReply
  \/ FrontendRecv
  \/ SendToAgent

SpecSession == Init /\ [][SessionNext]_vars

\* the cache under chunks and other notifications: the agent's message
\* chunks and tool calls, the primary's prompts (user_message_chunk is
\* synthesized from them) and one frontend that joins, as far as its
\* Cache.Replay goroutine has not run yet
FlushAgentLines(k) ==
  {u \in AgentUpdates(k) :
     u.params.update.sessionUpdate \in {"agent_message_chunk", "tool_call"}}

FlushNext ==
  \/ AddFrontend(2)
  \/ \E line \in SynthFeLines(Len(chan) + 1) : ReadLines(Primary, line)
  \/ \E line \in FlushAgentLines(agentCount + 1) : AgentRead(line)
  \/ AgentBroadcast
  \/ FrontendRecv
  \/ UserMessage
  \/ SendToAgent

SpecFlush == Init /\ [][FlushNext]_vars

\* frontends that send a request and leave before the agent answers it
LeaveNext ==
  \/ Clients(SessionFeLines(Len(chan) + 1))
  \/ Replays
  \/ Departures
  \/ \E line \in AgentResults : AgentRead(line)
  \/ AgentReply
  \/ FrontendRecv
  \/ SendToAgent

SpecLeave == Init /\ [][LeaveNext]_vars

\* peers that stop reading: the agent leaves its stdin unread, and the
\* peer of one socket leaves its connection unread once the socket buffer
\* holds StallAfter lines, so that a Write to it does not return
StallAfter == 1
StalledFe == 2
Writable(f) == f # StalledFe \/ Len(out[f]) < StallAfter

StallReplaySend == \E f \in Secondaries : ReplaySend(f) /\ Writable(f)

StallBroadcastSend == AgentBroadcastSend /\ Writable(Head(aloop.fes))

StallReply == AgentReply /\ Writable(aloop.reply[1].fe)

StallNext ==
  \/ Clients(RouteFeLines(Len(chan) + 1))
  \/ \E f \in Secondaries : ReplayStart(f)
  \/ StallReplaySend
  \/ \E line \in AgentNotifications(agentCount + 1) \cup AgentResults :
       AgentRead(line)
  \/ AgentBroadcastSnapshot
  \/ StallBroadcastSend
  \/ StallReply
  \/ FrontendRecv
  \/ SendToAgent
  \/ SendToAgentBlocks

SpecStall == Init /\ [][StallNext]_vars

\* requests and notifications on their way to an agent that may die
ForwardFeLines(tag) ==
  {FeRequest("1", "session/new", tag, 1),
   Line(NoId, "session/cancel", [NoParams EXCEPT !.tag = tag], NoResult,
        NoError)}

ForwardNext ==
  \/ Clients(ForwardFeLines(Len(chan) + 1))
  \/ Replays
  \/ \E line \in AgentResults : AgentRead(line)
  \/ AgentReply
  \/ AgentDeath
  \/ FrontendRecv
  \/ SendToAgent
  \/ SendToAgentFailed

SpecForward == Init /\ [][ForwardNext]_vars

\* lines whose id member is the JSON literal null: requests of the
\* frontends beside requests with id 1, and the agent's answers to what it
\* was written
NullFeLines(tag) ==
  {FeRequest(id, "session/new", tag, 1) : id \in {"1", NullId}}

NullAnswers ==
  {Line(NullId, "", NoParams,
        [NoResult EXCEPT !.echo = agentIn[i].params.tag], NoError) :
     i \in {j \in DOMAIN agentIn : agentIn[j].id = NullId}}

NullNext ==
  \/ Clients(NullFeLines(Len(chan) + 1))
  \/ Replays
  \/ \E line \in AgentResults \cup NullAnswers : AgentRead(line)
  \/ AgentReply
  \/ FrontendRecv
  \/ SendToAgent

SpecNull == Init /\ [][NullNext]_vars

\* prompts on their way to the agent and the agent's answers to them, as
\* far as the replay of the joiner and the detached turn_complete
\* broadcasts have not run
PromptNext ==
  \/ AddFrontend(2)
  \/ \E f \in FeIds : \E line \in SynthFeLines(Len(chan) + 1) :
       ReadLines(f, line)
  \/ \E line \in AgentResults : AgentRead(line)
  \/ AgentReply
  \/ FrontendRecv
  \/ UserMessage
  \/ SendToAgent

SpecPrompt == Init /\ [][PromptNext]_vars

\* the agent loop and the replay tasks as producers of one frontend's
\* output, each Send taken as its two Writes
WriteNext ==
  \/ \E f \in Secondaries : AddFrontend(f)
  \/ \E f \in Secondaries : ReplayStart(f)
  \/ \E f \in Secondaries : ReplayWriteLine(f)
  \/ \E f \in Secondaries : ReplayWriteNewline(f)
  \/ \E line \in FlushAgentLines(agentCount + 1) : AgentRead(line)
  \/ AgentBroadcastSnapshot
  \/ AgentWriteLine
  \/ AgentWriteNewline

SpecWrite == Init /\ [][WriteNext]_vars

\* turns: prompts, the agent's answers to them and the tool calls it goes
\* on to report, with the detached turn_complete broadcasts
TurnAgentLines(k) ==
  AgentResults
  \cup {u \in AgentUpdates(k) : u.params.update.sessionUpdate = "tool_call"}

TurnNext ==
  \/ AddFrontend(2)
  \/ \E f \in FeIds : \E line \in SynthFeLines(Len(chan) + 1) :
       ReadLines(f, line)
  \/ Replays
  \/ Detached
  \/ \E line \in TurnAgentLines(agentCount + 1) : AgentRead(line)
  \/ AgentBroadcast
  \/ AgentReply
  \/ FrontendRecv
  \/ UserMessage
  \/ SendToAgent

SpecTurn == Init /\ [][TurnNext]_vars

\* fs/ reverse calls of the agent and frontends, primary or not, that
\* answer under the ids the agent uses, whether or not they were sent the
\* call
SpoofCalls(k) == {r \in ReverseCalls(k) : HasPrefix(r.method, "fs/")}

SpoofFeLines(tag) ==
  {Line(id, "", NoParams, [NoResult EXCEPT !.echo = tag], NoError) :
     id \in AgentReqIds}

SpoofNext ==
  \/ Clients(SpoofFeLines(Len(chan) + 1))
  \/ \E f \in Secondaries : ReplayStart(f)
  \/ Departures
  \/ \E line \in SpoofCalls(agentCount + 1) : AgentRead(line)
  \/ AgentSendToPrimary
  \/ FrontendRecv
  \/ SendToAgent

SpecSpoof == Init /\ [][SpoofNext]_vars

\* prompts sent to an agent that dies
DeadPromptNext ==
  \/ AddFrontend(2)
  \/ \E f \in FeIds : \E line \in SynthFeLines(Len(chan) + 1) :
       ReadLines(f, line)
  \/ \E f \in Secondaries : ReplayStart(f)
  \/ AgentDeath
  \/ FrontendRecv
  \/ UserMessage
  \/ SendToAgent
  \/ SendToAgentFailed

SpecDeadPrompt == Init /\ [][DeadPromptNext]_vars

\* every input
Next ==
  \/ Clients(FeLines(Len(chan) + 1))
  \/ Replays
  \/ Departures
  \/ Detached
  \/ \E line \in AgentLines(agentCount + 1) : AgentRead(line)
  \/ AgentBroadcast
  \/ AgentSendToPrimary
  \/ AgentReply
  \/ AgentDeath
  \/ FrontendRecv
  \/ UserMessage
  \/ SendToAgent
  \/ SendToAgentBlocks
  \/ SendToAgentFailed

Spec == Init /\ [][Next]_vars

\* ------------------------------------------------------------------ claims
\* the frontend line a written response answers: the request the agent
\* echoes in its result, else the request of the pending entry it was
\* built from
AnsweredTag(w) == IF w.line.result.echo # 0 THEN w.line.result.echo ELSE w.req

IsResponseTo(w) == w.via \in {"resp", "err"}

\* C1: every response written to a frontend for one of its requests (the
\* agent's response with the id restored, or the synthesized error)
\* carries the id that frontend gave the request, whatever id the agent saw
\* and whatever ids the other frontends use.
C1_ResponseCarriesOriginalId ==
  \A f \in FeIds : \A i \in DOMAIN out[f] :
    LET w == out[f][i]
    IN  IsResponseTo(w) =>
          /\ AnsweredTag(w) \in DOMAIN chan
          /\ chan[AnsweredTag(w)].Frontend = f
          /\ w.line.id = chan[AnsweredTag(w)].Line.id

\* two frontends have used the same id at the same time, the agent saw
\* them under different ids, and one of them has its response
C1_Witness ==
  \E f \in FeIds : \E i \in DOMAIN out[f] : \E n \in DOMAIN pending :
    /\ out[f][i].via = "resp"
    /\ out[f][i].line.result.echo # 0
    /\ pending[n].frontend # f
    /\ pending[n].originalID = out[f][i].line.id
    /\ MarshalInt(n) # out[f][i].line.id

\* C2: no two requests written to the agent and not yet answered carry the
\* same id.
C2_InFlightIdsDistinct ==
  \A i \in Unanswered : \A j \in Unanswered :
    i # j => agentIn[i].id # agentIn[j].id

\* two requests are in flight at the agent that their frontends sent with
\* one and the same id
C2_Witness ==
  \E i \in Unanswered : \E j \in Unanswered :
    /\ i # j
    /\ chan[agentIn[i].params.tag].Line.id = chan[agentIn[j].params.tag].Line.id
    /\ chan[agentIn[i].params.tag].Frontend # chan[agentIn[j].params.tag].Frontend

\* C3: an agent response whose numeric id matches a live pending entry is
\* written to the frontend recorded in the entry (the sender of the request
\* the entry was made for) and to no other frontend, once.
C3_ResponseToRecordedFrontend ==
  /\ \A n \in DOMAIN pending :
       pending[n].frontend = chan[pending[n].params.tag].Frontend
  /\ \A f \in FeIds : \A i \in DOMAIN out[f] :
       out[f][i].via = "resp" =>
         /\ chan[out[f][i].req].Frontend = f
         /\ \A g \in FeIds : \A j \in DOMAIN out[g] :
              (out[g][j].via = "resp" /\ out[g][j].req = out[f][i].req)
                => (g = f /\ j = i)

\* a secondary frontend has the response to its request while a request of
\* the primary is pending
C3_Witness ==
  \E f \in Secondaries : \E i \in DOMAIN out[f] : \E n \in DOMAIN pending :
    /\ out[f][i].via = "resp"
    /\ pending[n].frontend = Primary

Range(seq) == {seq[i] : i \in DOMAIN seq}

\* the frontends a broadcast of the agent loop has yet to write to
AgentRemaining(d) ==
  IF d = Len(dispatched) /\ aloop.pc = "send" /\ dispatched[d].by = "agent"
  THEN Range(aloop.fes) ELSE {}

IsUpdate(line) == line.method = "session/update" /\ line.id = NoId

\* the place of a line in the agent's output
Pos(line) == CHOOSE k \in DOMAIN agentOut : agentOut[k] = line

\* C4: every frontend that is in the membership list when a session/update
\* notification of the agent is dispatched is written that very line, and
\* the notifications a frontend is written live come in the order the
\* agent emitted them.
C4_FanOutIdenticalInOrder ==
  /\ \A d \in DOMAIN dispatched :
       (dispatched[d].by = "agent" /\ dispatched[d].line \in Range(agentOut))
         => \A g \in Range(dispatched[d].fes) \ AgentRemaining(d) :
              \E i \in DOMAIN out[g] :
                out[g][i] = Written(dispatched[d].line, "live", 0)
  /\ \A f \in FeIds : \A i \in DOMAIN out[f] : \A j \in DOMAIN out[f] :
       (i < j /\ out[f][i].via = "live" /\ out[f][j].via = "live")
         => /\ out[f][i].line \in Range(agentOut)
            /\ out[f][j].line \in Range(agentOut)
            /\ Pos(out[f][i].line) < Pos(out[f][j].line)

\* two notifications have been dispatched to two frontends each, and both
\* broadcasts are over
C4_Witness ==
  /\ aloop.pc = "read"
  /\ \E d \in DOMAIN dispatched : \E e \in DOMAIN dispatched :
       /\ d < e
       /\ Len(dispatched[d].fes) >= 2
       /\ Len(dispatched[e].fes) >= 2
       /\ dispatched[d].line \in Range(agentOut)
       /\ dispatched[e].line \in Range(agentOut)

\* the lines a replay has written to a frontend
ReplayOf(f) ==
  LET w == SelectSeq(out[f], LAMBDA e : e.via = "replay")
  IN  [i \in DOMAIN w |-> w[i].line]

\* the place of a line in a replay: meta, initialize response, session/new
\* response, update, permission request
Rank(line) ==
  CASE line.method = "acp-multiplex/meta" -> 1
    [] line.method = "" /\ line.result.sessionId = "" -> 2
    [] line.method = "" /\ line.result.sessionId # "" -> 3
    [] line.method = "session/update" -> 4
    [] line.method = "session/request_permission" -> 5
    [] OTHER -> 0

\* a slot's line if the slot is set
IfSet(slot) == IF slot = NoLine THEN <<>> ELSE <<slot[1]>>

ReplayTaken(f) == replay[f].pc = "start" /\ replay'[f].pc # "start"

C6_ReplayBeforeLive ==
  \A f \in Secondaries : \A i \in DOMAIN out[f] : \A j \in DOMAIN out[f] :
    (i < j /\ out[f][j].via = "replay") => out[f][i].via = "replay"

IsMessageChunk(line) ==
  IsUpdate(line) /\ line.params.update.sessionUpdate = "agent_message_chunk"

\* the runs of consecutive agent_message_chunk lines of the agent, as
\* <<first, last>> places in its output
Runs ==
  {r \in (DOMAIN agentOut) \X (DOMAIN agentOut) :
     /\ r[1] <= r[2]
     /\ \A k \in r[1]..r[2] : IsMessageChunk(agentOut[k])
     /\ r[1] = 1 \/ ~IsMessageChunk(agentOut[r[1] - 1])
     /\ r[2] = Len(agentOut) \/ ~IsMessageChunk(agentOut[r[2] + 1])}

RECURSIVE ConcatText(_)
ConcatText(lines) ==
  IF lines = <<>> THEN <<>>
  ELSE Head(lines).params.update.content.text \o ConcatText(Tail(lines))

\* the texts of the agent's lines at places a..b, concatenated
RunText(a, b) == ConcatText(SubSeq(agentOut, a, b))

\* the coalesced agent_message_chunk notifications a replay holds for a run
ReplayedFor(snap, r) ==
  SelectSeq(snap, LAMBDA e :
    /\ IsMessageChunk(e)
    /\ e.params.update.content.text # <<>>
    /\ e.params.update.content.text[1] \in r[1]..r[2])

\* the chunks of a run a frontend has been written live, in arrival order
LiveChunks(f, a, b) ==
  SelectSeq(out[f], LAMBDA w :
    /\ w.via = "live"
    /\ IsMessageChunk(w.line)
    /\ w.line \in {agentOut[k] : k \in a..b})

Replayed == {f \in Secondaries : replay[f].pc \in {"send", "done"}}

IsPrompt(t) ==
  chan[t].Line.method = "session/prompt" /\ chan[t].Line.id # NoId

\* the prompts whose user messages synthesizeUserMessage is done with
Prompted ==
  {t \in DOMAIN chan :
     /\ IsPrompt(t)
     /\ t <= chanHead
     /\ ~(floop.tag = t /\ floop.pc \in {"um", "snap", "send"})}

LinesOf(f) == {out[f][i].line : i \in DOMAIN out[f]}

\* C8: for a session/prompt of frontend F, one user_message_chunk
\* notification per element of params.prompt is in the cache and has been
\* written to every frontend that was in the membership list, F excepted,
\* and none of them is written to F.
C8_UserMessageToOthersOnly ==
  \A t \in Prompted :
    \A b \in Range(chan[t].Line.params.prompt) :
      LET n == userMessage(chan[t].Line.params.sessionId, b)
          F == chan[t].Frontend
      IN  /\ n \in Range(cache.updates)
          /\ \E d \in DOMAIN dispatched :
               /\ dispatched[d].line = n
               /\ dispatched[d].except = F
               /\ \A g \in Range(dispatched[d].fes) : n \in LinesOf(g)
          /\ n \notin LinesOf(F)

\* the prompts the agent has answered with a stopReason, the answer being
\* at the sender
Turns ==
  {t \in DOMAIN chan :
     /\ IsPrompt(t)
     /\ \E w \in Range(out[chan[t].Frontend]) :
          w.via = "resp" /\ w.req = t /\ w.line.result.stopReason # ""}

TurnResponse(t) ==
  (CHOOSE w \in Range(out[chan[t].Frontend]) :
     w.via = "resp" /\ w.req = t /\ w.line.result.stopReason # "").line

\* C9: when the agent has answered a session/prompt of frontend F, F has
\* the response, a turn_complete notification with the response's
\* stopReason is in the cache, the detached broadcast writes it to every
\* frontend in the membership list, F excepted, and it is not written to F.
C9_TurnCompleteToOthersOnly ==
  \A t \in Turns :
    LET tc == turnComplete(TurnResponse(t))[1]
        F == chan[t].Frontend
    IN  /\ tc.params.update.stopReason = TurnResponse(t).result.stopReason
        /\ tc \in Range(cache.updates)
        /\ bcasts = <<>> =>
             \E d \in DOMAIN dispatched :
               /\ dispatched[d].by = "detached"
               /\ dispatched[d].line = tc
               /\ dispatched[d].except = F
               /\ \A g \in Range(dispatched[d].fes) : tc \in LinesOf(g)
        /\ (\A u \in DOMAIN chan : chan[u].Frontend = F) => tc \notin LinesOf(F)

\* the "Agent process exited" errors a frontend has for one of its requests
Errors(f, tag) ==
  {i \in DOMAIN out[f] : out[f][i].via = "err" /\ out[f][i].req = tag}

Quiet ==
  /\ aloop.pc = "done"
  /\ floop.pc = "recv"
  /\ chanHead = Len(chan)

\* C10: once the agent's stream has ended, a request that was open, or that
\* was being forwarded at that moment, has one "Agent process exited" error
\* at its frontend: never two, and, when the proxy has come to rest, not
\* none unless the agent answered it.
C10_OneErrorPerRequest ==
  \A t \in DOMAIN chan :
    LET f == chan[t].Frontend
    IN  /\ Cardinality(Errors(f, t)) <= 1
        /\ (Quiet /\ chan[t].Line.method # "" /\ chan[t].Line.id # NoId
              /\ ~ \E g \in FeIds : \E i \in DOMAIN out[g] :
                     out[g][i].via = "resp" /\ out[g][i].req = t)
             => Cardinality(Errors(f, t)) = 1

\* the requests a frontend sent when the agent was already marked dead
SentAfterDeath ==
  {t \in DOMAIN chan : chan[t].Dead /\ IsRequest(chan[t].Line)}

\* readFromFrontends has finished with the t-th line of the channel
Handled(t) == t <= chanHead /\ (floop.pc = "recv" \/ t < chanHead)

\* C11: a request sent by a frontend after the agent was marked dead is never
\* written to the agent and, once handled, its frontend holds the "Agent
\* process exited" error with the request's original id and no pending
\* entry of it remains.
C11_DeadAgentDirectError ==
  \A t \in SentAfterDeath :
    /\ \A i \in DOMAIN agentIn : agentIn[i].params.tag # t
    /\ Handled(t) =>
         /\ \E i \in DOMAIN out[chan[t].Frontend] :
              out[chan[t].Frontend][i]
                = Written(errResp(chan[t].Line.id), "err", t)
         /\ \A n \in DOMAIN pending : pending[n].params.tag # t

\* a request sent after the death has been handled
C11_Witness ==
  \E t \in SentAfterDeath :
    /\ Handled(t)
    /\ \E i \in DOMAIN out[chan[t].Frontend] :
         out[chan[t].Frontend][i].via = "err"

\* the agent's requests with this id that the proxy has read
ReverseRequests(id) ==
  {k \in DOMAIN agentOut : IsRequest(agentOut[k]) /\ agentOut[k].id = id}

\* the frontend responses with this id that readFromFrontends has taken
ProcessedResponses(id) ==
  {t \in 1..chanHead :
     classify(parseEnvelope(chan[t].Line)) = "KindResponse"
     /\ chan[t].Line.id = id}

\* the response was forwarded: it is written to the agent, or sendToAgent
\* is running for it
IsForwarded(t) ==
  \/ chan[t].Line \in Range(agentIn)
  \/ floop.pc # "recv" /\ floop.kind = "resp" /\ floop.line = chan[t].Line

ForwardedResponses(id) == {t \in ProcessedResponses(id) : IsForwarded(t)}

\* C12: of the frontend responses with the id of an agent request, the first
\* one processed is forwarded to the agent, and one response is forwarded
\* for each request that is no longer registered: every other response
\* with that id, from whichever frontend, is dropped.
C12_FirstResponseWins ==
  \A id \in AgentReqIds :
    LET proc == ProcessedResponses(id)
        fwd == ForwardedResponses(id)
    IN  /\ Cardinality(fwd) + (IF id \in pendingReverse THEN 1 ELSE 0)
             = Cardinality(ReverseRequests(id))
        /\ \A t \in proc : (\A u \in proc : t <= u) => t \in fwd

\* one broadcast request, answered by two frontends: the first response has
\* reached the agent and the second was dropped
C12_Witness ==
  \E id \in AgentReqIds :
    /\ Cardinality(ReverseRequests(id)) = 1
    /\ \E k \in ReverseRequests(id) :
         agentOut[k].method = "session/request_permission"
    /\ floop.pc = "recv"
    /\ \E t, u \in ProcessedResponses(id) :
         /\ t < u
         /\ chan[t].Frontend # chan[u].Frontend
         /\ chan[t].Line \in Range(agentIn)
         /\ chan[u].Line \notin Range(agentIn)

\* a reverse call of the agent that routeReverseCall gives to sendToPrimary
IsPrimaryOnly(line) ==
  IsRequest(line)
  /\ (HasPrefix(line.method, "fs/") \/ HasPrefix(line.method, "terminal/"))

PrimaryOnlyAt(o, f) == {i \in DOMAIN o[f] : IsPrimaryOnly(o[f][i].line)}

IsPermission(line) ==
  IsRequest(line) /\ line.method = "session/request_permission"

\* the permission request that no frontend has answered: the agent's last
\* one, while its id is registered in pendingReverse
UnansweredPermission ==
  {agentOut[k] : k \in {j \in DOMAIN agentOut :
      /\ IsPermission(agentOut[j])
      /\ agentOut[j].id \in pendingReverse
      /\ \A i \in DOMAIN agentOut :
           i > j => ~(IsRequest(agentOut[i]) /\ agentOut[i].id = agentOut[j].id)}}

\* readFromAgent is still sending this line
AgentSending(line) == aloop.pc # "read" /\ aloop.line = line

AnsweredPermission ==
  {agentOut[k] : k \in {j \in DOMAIN agentOut : IsPermission(agentOut[j])}}
  \ UnansweredPermission

RequestOf(line) ==
  CHOOSE t \in DOMAIN chan :
    \E i \in DOMAIN agentIn :
      agentIn[i].params.tag = t /\ agentIn[i].id = line.id

\* the agent's answers (result or error) to forwarded session/set_mode
IsSetModeAnswer(line) ==
  /\ classify(parseEnvelope(line)) = "KindResponse"
  /\ \E i \in DOMAIN agentIn :
       agentIn[i].id = line.id /\ agentIn[i].method = "session/set_mode"

\* the current_mode_update of the request's own sessionId and modeId
ModeUpdateOf(t) ==
  SessionUpdate(chan[t].Line.params.sessionId,
    [NoUpdate EXCEPT !.sessionUpdate = "current_mode_update",
                     !.currentModeId = chan[t].Line.params.modeId])

\* the notifications in the order the agent's lines gave rise to them: its
\* own updates, and a current_mode_update for each set_mode answer
NotifiedInOrder ==
  LET w == SelectSeq(agentOut, LAMBDA l : IsUpdate(l) \/ IsSetModeAnswer(l))
  IN  [i \in DOMAIN w |->
         IF IsUpdate(w[i]) THEN w[i] ELSE ModeUpdateOf(RequestOf(w[i]))]

\* C16: for every answer of the agent to a session/set_mode of frontend F,
\* the current_mode_update of the request's sessionId and modeId is in the
\* cache at the place of the answer among the notifications, is written to
\* every frontend of the membership list other than F, and every replay
\* snapshot taken later holds it after the cached responses, between the
\* notifications that came before it and those that came after.
C16_ModeChangeSynthesized ==
  /\ [](cache.updates = NotifiedInOrder)
  /\ [](\A k \in DOMAIN agentOut :
          IsSetModeAnswer(agentOut[k]) /\ (aloop.pc = "read" \/ k < Len(agentOut))
          => LET t == RequestOf(agentOut[k])
             IN  \E i \in DOMAIN dispatched :
                   /\ dispatched[i].line = ModeUpdateOf(t)
                   /\ dispatched[i].except = chan[t].Frontend
                   /\ dispatched[i].fes = Without(dispatched[i].fes, chan[t].Frontend)
                   /\ \A f \in Range(dispatched[i].fes) :
                        \E j \in DOMAIN out[f] :
                          out[f][j] = Written(ModeUpdateOf(t), "synth", 0))
  /\ [][\A f \in Secondaries :
          ReplayTaken(f) =>
            replay'[f].snap = cache.initResp \o cache.newResp \o NotifiedInOrder]_vars

\* the primary's set_mode was answered; a frontend attached afterwards was
\* replayed the current_mode_update and then a later update of the agent
C16_Witness ==
  \E f \in Secondaries : \E k \in DOMAIN agentOut :
    /\ IsSetModeAnswer(agentOut[k])
    /\ k < Len(agentOut)
    /\ IsUpdate(agentOut[Len(agentOut)])
    /\ replay[f].pc = "done"
    /\ ReplayOf(f) = <<ModeUpdateOf(RequestOf(agentOut[k])),
                       agentOut[Len(agentOut)]>>
    /\ \A i \in DOMAIN dispatched : f \notin Range(dispatched[i].fes)

\* the agent's answers (result or error) to forwarded requests of a method,
\* by their place among the agent's lines
AnswersTo(method) ==
  {k \in DOMAIN agentOut :
     /\ classify(parseEnvelope(agentOut[k])) = "KindResponse"
     /\ \E i \in DOMAIN agentIn :
          agentIn[i].id = agentOut[k].id /\ agentIn[i].method = method}

\* the slot holds the last of these answers, with id 0 in place of its own
HoldsMostRecent(slot, method) ==
  IF AnswersTo(method) = {} THEN slot = NoLine
  ELSE LET k == CHOOSE a \in AnswersTo(method) :
                  \A b \in AnswersTo(method) : b <= a
       IN  /\ slot # NoLine
           /\ slot[1].id = "0"
           /\ [slot[1] EXCEPT !.id = agentOut[k].id] = agentOut[k]

IsResponseLine(line) == classify(parseEnvelope(line)) = "KindResponse"

\* C17: initResp holds the agent's most recent answer to an initialize
\* request and newResp its most recent answer to a session/new request,
\* each with id 0, and the responses in a replay snapshot are exactly
\* these two, in this order.
C17_CachedResponsesMostRecent ==
  /\ [](HoldsMostRecent(cache.initResp, "initialize"))
  /\ [](HoldsMostRecent(cache.newResp, "session/new"))
  /\ [][\A f \in Secondaries :
          ReplayTaken(f) =>
            SelectSeq(replay'[f].snap, IsResponseLine)
              = cache.initResp \o cache.newResp]_vars

\* the agent has answered two initialize requests with different lines:
\* initResp is the second
C17_Witness ==
  \E a, b \in AnswersTo("initialize") :
    /\ a < b
    /\ b = Len(agentOut)
    /\ agentOut[a] # [agentOut[b] EXCEPT !.id = agentOut[a].id]
    /\ cache.initResp = <<[agentOut[b] EXCEPT !.id = "0"]>>

\* the proxy ids of the requests written to the agent, in the order written
ForwardedIds ==
  LET w == SelectSeq(agentIn, IsRequest)
  IN  [i \in DOMAIN w |-> UnmarshalInt(w[i].id)[2]]

\* C18: the counter starts at 1; each allocation takes the counter's value,
\* which no earlier allocation took, and advances it by one, so the ids
\* in use are below the counter, those of the requests written to the
\* agent increase strictly, and the request being forwarded has an id
\* greater than all of them.
C18_ProxyIdsIncrease ==
  /\ [](/\ nextID >= 1
        /\ chanHead = 0 => nextID = 1
        /\ DOMAIN pending \subseteq 1..(nextID - 1)
        /\ \A i \in DOMAIN ForwardedIds :
             /\ ForwardedIds[i] \in 1..(nextID - 1)
             /\ \A j \in DOMAIN ForwardedIds :
                  i < j => ForwardedIds[i] < ForwardedIds[j]
        /\ floop.kind = "req" =>
             /\ floop.proxyID \in 1..(nextID - 1)
             /\ \A i \in DOMAIN ForwardedIds : ForwardedIds[i] < floop.proxyID)
  /\ [][nextID' # nextID =>
          /\ nextID' = nextID + 1
          /\ floop'.proxyID = nextID
          /\ DOMAIN pending' = DOMAIN pending \cup {nextID}
          /\ nextID \notin DOMAIN pending]_vars

\* two requests were forwarded, as 1 and as 2, and a third allocation was
\* made
C18_Witness ==
  /\ Len(ForwardedIds) >= 2
  /\ ForwardedIds[1] = 1
  /\ ForwardedIds[2] = 2
  /\ nextID = 4

\* the proxy ids of the requests written to the agent for which the proxy
\* has read no response
OpenIds ==
  {UnmarshalInt(agentIn[i].id)[2] : i \in Unanswered}

\* the proxy id of the request handleFrontendRequest is working on: its
\* entry is stored, its line is not written yet
InHand ==
  IF floop.pc # "recv" /\ floop.kind = "req" THEN {floop.proxyID} ELSE {}

\* C19: every pending entry belongs to a request that is written to the
\* agent and unanswered, or to the request being forwarded at that
\* moment; and until the agent is marked dead every request written to the
\* agent and unanswered has its entry.
C19_PendingMatchesOpenRequests ==
  /\ DOMAIN pending \subseteq OpenIds \cup InHand
  /\ ~agentDead => OpenIds \subseteq DOMAIN pending

\* two requests are written to the agent and unanswered, each with its
\* entry, and a third is stored and not written yet
C19_Witness ==
  /\ Cardinality(OpenIds) = 2
  /\ InHand # {}
  /\ DOMAIN pending = OpenIds \cup InHand
  /\ InHand \cap OpenIds = {}

\* C19 as stated: in every state the entries are exactly the requests
\* written to the agent and unanswered
C19_PendingBijection == DOMAIN pending = OpenIds

\* updates followed by the flushed accumulator
Flushed == flushChunks(cache).updates

IsChunk(line) ==
  IsUpdate(line) /\ IsChunkKind(line.params.update.sessionUpdate)

\* the notifications one cached line stands for: itself, or for a coalesced
\* chunk notification one chunk of its kind for each piece of its text
Pieces(line) ==
  IF IsChunk(line)
  THEN [j \in DOMAIN line.params.update.content.text |->
          [line EXCEPT !.params.update.content.text =
                         <<line.params.update.content.text[j]>>]]
  ELSE <<line>>

RECURSIVE Uncoalesced(_)
Uncoalesced(lines) ==
  IF lines = <<>> THEN <<>>
  ELSE Pieces(Head(lines)) \o Uncoalesced(Tail(lines))

\* two neighbours of the cached lines are chunk notifications of one kind:
\* a run that is held in more than one piece
SplitAt(i) ==
  /\ i \in DOMAIN Flushed
  /\ i + 1 \in DOMAIN Flushed
  /\ IsChunk(Flushed[i])
  /\ IsChunk(Flushed[i + 1])
  /\ Flushed[i].params.update.sessionUpdate
       = Flushed[i + 1].params.update.sessionUpdate

\* the cached lines stand for the agent's notifications in arrival order
InArrivalOrder == Uncoalesced(Flushed) = SelectSeq(agentOut, IsUpdate)

Coalesced(c) ==
  SessionUpdate(c.chunkMeta,
    [NoUpdate EXCEPT !.sessionUpdate = c.chunkType,
                     !.content = TextBlock(c.chunkText)])

\* the notification other than a chunk that this step gives to AddUpdate:
\* the agent's line just read, or the user_message_chunk just synthesized
AddedOther ==
  (IF /\ agentOut' # agentOut
      /\ IsUpdate(agentOut'[Len(agentOut')])
      /\ ~IsChunk(agentOut'[Len(agentOut')])
   THEN {agentOut'[Len(agentOut')]} ELSE {})
  \cup (IF floop.pc = "um" /\ floop'.pc = "snap" THEN {floop'.notif} ELSE {})

\* C21: when AddUpdate is given a notification other than a chunk while a
\* chunk run is accumulated, updates gains the coalesced notification of
\* the run and then the new line, and the accumulator is empty.
C21_OtherKindFlushesFirst ==
  [][\A line \in AddedOther :
       cache.chunkType # "" =>
         /\ cache'.updates = cache.updates \o <<Coalesced(cache), line>>
         /\ cache'.chunkType = ""
         /\ cache'.chunkText = <<>>]_vars

\* a run of two chunks was accumulated, no replay has flushed it, and the
\* user_message_chunk of a prompt has just been added behind it
C21_Witness ==
  /\ floop.pc = "snap"
  /\ \A f \in Secondaries : replay[f].pc \in {"none", "start"}
  /\ cache.chunkType = ""
  /\ Len(cache.updates) = 2
  /\ IsChunk(cache.updates[1])
  /\ Len(cache.updates[1].params.update.content.text) = 2
  /\ cache.updates[2] = floop.notif

\* what a frontend was written as the outcome of its request t: responses
\* routed from the agent and errors made by the proxy
Outcomes(f, t) ==
  {i \in DOMAIN out[f] : IsResponseTo(out[f][i]) /\ out[f][i].req = t}

\* C22: a pending entry has one exit: while it is in the table its frontend
\* has been written no outcome of the request, and once it has left the
\* frontend is written one outcome at most, not an error after a response
\* and not a second error.
C22_OneExitPerEntry ==
  /\ \A n \in DOMAIN pending :
       Outcomes(pending[n].frontend, pending[n].params.tag) = {}
  /\ \A t \in DOMAIN chan :
       Cardinality(Outcomes(chan[t].Frontend, t)) <= 1

\* C23: the agent is marked dead when its outbound stream has ended and the
\* Scan loop is left, and stays dead; while it is dead nothing is written
\* to its input, and a sendToAgent entered then returns the agent-exited
\* error at its check, without a Write.
C23_DeadIsTerminalAndSilent ==
  [][/\ agentDead => agentDead'
     /\ ~agentDead /\ agentDead' => agentExited # "no" /\ aloop.pc = "read"
     /\ agentDead => agentIn' = agentIn
     /\ agentDead /\ floop.pc = "load" /\ floop' # floop =>
          floop'.pc \in {"fail", "recv"}]_vars

\* the line the agent loop has just read is a response with a numeric id
\* that has no pending entry
ReadsUnknownResponse ==
  /\ agentOut' # agentOut
  /\ LET line == agentOut'[Len(agentOut')]
     IN  /\ classify(parseEnvelope(line)) = "KindResponse"
         /\ UnmarshalInt(line.id)[1]
         /\ UnmarshalInt(line.id)[2] \notin DOMAIN pending

\* C24: reading an agent response whose numeric id has no pending entry
\* writes nothing to any frontend, queues no send, and leaves the pending
\* table and the cache as they were.
C24_UnknownResponseDropped ==
  [][ReadsUnknownResponse =>
       /\ out' = out
       /\ pending' = pending
       /\ cache' = cache
       /\ bcasts' = bcasts
       /\ aloop'.pc = "read"]_vars

\* the agent answered a request twice: the first answer was routed, the
\* second was read and no frontend holds anything more
C24_Witness ==
  /\ aloop.pc = "read"
  /\ \E k \in DOMAIN agentOut :
       /\ k < Len(agentOut)
       /\ IsResponseLine(agentOut[k])
       /\ IsResponseLine(agentOut[Len(agentOut)])
       /\ agentOut[k].id = agentOut[Len(agentOut)].id
       /\ UnmarshalInt(agentOut[k].id)[1]
       /\ \E f \in FeIds : \E i \in DOMAIN out[f] :
            out[f][i].via = "resp" /\ out[f][i].line.result = agentOut[k].result
  /\ Cardinality({<<f, i>> \in FeIds \X (1..MaxEvents) :
                    i \in DOMAIN out[f] /\ out[f][i].via \in {"resp", "fallback"}}) = 1

\* the pending entry that the response just read by the agent loop resolves
ResolvedNow ==
  IF agentOut' # agentOut /\ IsResponseLine(agentOut'[Len(agentOut')])
     /\ UnmarshalInt(agentOut'[Len(agentOut')].id)[1]
  THEN {UnmarshalInt(agentOut'[Len(agentOut')].id)[2]} \cap DOMAIN pending
  ELSE {}

\* C25: a frontend leaves the membership list only in a step taken after
\* its done has fired, and no send to it changes the list; its pending
\* entries stay when it leaves; a response for an entry removes the entry
\* and is sent to the entry's frontend, member or not.
C25_RemovedOnlyOnDone ==
  [][/\ \A f \in Members \ Members' : f \in closed
     /\ out' # out => frontends' = frontends
     /\ frontends' # frontends => pending' = pending
     /\ \A n \in ResolvedNow :
          /\ n \notin DOMAIN pending'
          /\ aloop'.reply # <<>>
          /\ aloop'.reply[1].fe = pending[n].frontend
     /\ aloop.pc = "reply" /\ aloop' # aloop =>
          LET r == aloop.reply[1]
          IN  out'[r.fe] = Append(out[r.fe], Written(r.line, "resp", r.req))]_vars

\* the response to a request of a frontend that has left the list was sent
\* to it, and its entry is gone
C25_Witness ==
  \E t \in DOMAIN chan :
    LET f == chan[t].Frontend
    IN  /\ f \notin Members
        /\ aloop.pc = "read"
        /\ out[f] # <<>>
        /\ out[f][Len(out[f])].via = "resp"
        /\ out[f][Len(out[f])].req = t
        /\ \A n \in DOMAIN pending : pending[n].params.tag # t

\* C26: no activity holds a lock while it performs a blocking I/O call,
\* except the send mutex of a frontend: neither the proxy mutex nor the
\* cache mutex is held across a write to the agent or to a frontend.  (The
\* sections of the cache mutex, and those of the proxy mutex in AddFrontend,
\* RemoveFrontend, broadcastExcept and sendToPrimary, are each inside one
\* step and contain no write; the one section that spans steps is that of
\* sendToAgent.)
C26_NoLockAcrossIO == MuFree

\* the writes of the agent loop to frontends, as far as the peer takes them
AgentLoopWrites ==
  \/ StallBroadcastSend
  \/ StallReply

\* C27: a frontend that stops reading its output does not block the
\* agent-read loop: whenever the loop has a write to a frontend in hand it
\* can complete one, so that notifications go on to the other frontends and
\* responses go on being routed
C27_StalledFrontendDoesNotBlock ==
  aloop.pc \in {"send", "reply"} => ENABLED AgentLoopWrites

\* the line of a frontend that a line written to the agent comes from (0
\* for a response, which carries no tag)
TagOf(line) == line.params.tag

\* the notifications the frontend loop has finished with
HandledNotifications ==
  {t \in DOMAIN chan :
     /\ Handled(t)
     /\ classify(parseEnvelope(chan[t].Line)) = "KindNotification"}

\* C28: while the agent is alive, every notification a frontend sends is
\* forwarded unchanged to the agent, and the lines of one frontend
\* (requests and notifications) reach the agent in the order in which that
\* frontend sent them
C28_ForwardedInOrder ==
  /\ agentExited = "no" /\ ~agentDead =>
        \A t \in HandledNotifications :
          \E i \in DOMAIN agentIn : agentIn[i] = chan[t].Line
  /\ \A i, j \in DOMAIN agentIn :
        /\ i < j
        /\ TagOf(agentIn[i]) # 0
        /\ TagOf(agentIn[j]) # 0
        /\ chan[TagOf(agentIn[i])].Frontend = chan[TagOf(agentIn[j])].Frontend
        => TagOf(agentIn[i]) < TagOf(agentIn[j])

\* one frontend has sent a request and then a notification, and the agent
\* has been written both
C28_Witness ==
  /\ agentExited = "no" /\ ~agentDead
  /\ \E i, j \in DOMAIN agentIn :
        /\ i < j
        /\ IsRequest(agentIn[i])
        /\ agentIn[j].method = "session/cancel"
        /\ TagOf(agentIn[i]) # 0
        /\ chan[TagOf(agentIn[i])].Frontend = chan[TagOf(agentIn[j])].Frontend
        /\ chan[TagOf(agentIn[i])].Frontend \in Secondaries

\* the frontend loop takes a response whose id is no key of pendingReverse
TakesUnknownResponse ==
  /\ floop.pc = "recv"
  /\ chanHead' = chanHead + 1
  /\ LET env == parseEnvelope(chan[chanHead + 1].Line)
     IN  classify(env) = "KindResponse" /\ env.ID \notin pendingReverse

\* C29: a frontend response whose id is not a key of the pending-reverse
\* table (never issued by the agent, or already answered) is never written
\* to the agent, and dropping it changes neither the pending-reverse table
\* nor the cache: the loop goes on to its next message without a call of
\* sendToAgent
C29_UnknownReverseResponseDropped ==
  [][TakesUnknownResponse =>
       /\ pendingReverse' = pendingReverse
       /\ cache' = cache
       /\ agentIn' = agentIn
       /\ floop' = IdleFrontendLoop]_vars

\* a second response to a reverse call has been taken from the channel
\* after the first one was forwarded, and the agent holds only the first
C29_Witness ==
  \E t, u \in DOMAIN chan :
    /\ t < u
    /\ Handled(u)
    /\ chan[t].Line.method = "" /\ chan[u].Line.method = ""
    /\ chan[t].Line.id = chan[u].Line.id
    /\ \E i \in DOMAIN agentIn : agentIn[i] = chan[t].Line
    /\ ~ \E i \in DOMAIN agentIn : agentIn[i] = chan[u].Line
    /\ chan[u].Line.id \notin pendingReverse

\* the lines the proxy has read, from its frontends and from the agent
LinesRead == {chan[t].Line : t \in DOMAIN chan} \cup Range(agentOut)

\* C30: a line whose id member is JSON null is treated as having an id:
\* with a method it classifies as a request, is forwarded with a proxy id
\* and is answered with id null; without a method it classifies as a
\* response; it is never a notification or invalid
C30_NullIdIsAnId ==
  /\ \A line \in LinesRead :
        line.id = NullId =>
          classify(parseEnvelope(line)) =
            IF line.method # "" THEN "KindRequest" ELSE "KindResponse"
  /\ \A i \in DOMAIN agentIn :
        agentIn[i].method # "" => agentIn[i].id # NullId
  /\ \A t \in DOMAIN chan :
        /\ chan[t].Line.id = NullId
        /\ chan[t].Line.method # ""
        /\ \E k \in DOMAIN agentOut : agentOut[k].result.echo = t
        /\ aloop.pc = "read"
        => \E i \in DOMAIN out[chan[t].Frontend] :
             LET w == out[chan[t].Frontend][i]
             IN  w.via = "resp" /\ w.line.id = NullId /\ w.line.result.echo = t

\* two lines have the same members, with the same values, but for "id"
SameButId(a, b) ==
  /\ DOMAIN a = DOMAIN b
  /\ \A k \in DOMAIN a \ {"id"} : a[k] = b[k]

\* the proxy ids and original ids the round trip is tried with
ProxyIds == 1..(MaxEvents + 1)

PromptsWritten ==
  {t \in DOMAIN chan :
     IsPrompt(t) /\ \E i \in DOMAIN agentIn : TagOf(agentIn[i]) = t}

\* the user_message_chunk of block b of prompt t is in the cache and has
\* been written to every frontend of the list copied for its broadcast
UserMessageOut(t, b) ==
  LET n == userMessage(chan[t].Line.params.sessionId, b)
  IN  /\ n \in Range(cache.updates)
      /\ \E d \in DOMAIN dispatched :
           /\ dispatched[d].line = n
           /\ dispatched[d].except = chan[t].Frontend
           /\ \A g \in Range(dispatched[d].fes) : n \in LinesOf(g)

\* C32: for a session/prompt sent by frontend F, the synthesized
\* user_message_chunk notifications are in the cache and have been written
\* to every other frontend of the list before the prompt is written to the
\* agent, hence before anything the agent emits because of that prompt is
\* read, cached or delivered
C32_UserMessageBeforePrompt ==
  /\ \A t \in PromptsWritten :
        \A b \in Range(chan[t].Line.params.prompt) : UserMessageOut(t, b)
  /\ \A t \in DOMAIN chan :
        /\ IsPrompt(t)
        /\ floop.tag = t
        /\ floop.pc \in {"load", "write", "locked", "fail"}
        => \A b \in Range(chan[t].Line.params.prompt) : UserMessageOut(t, b)
  /\ \A k \in DOMAIN agentOut :
        LET t == agentOut[k].result.echo
        IN  t # 0 /\ IsPrompt(t) => t \in PromptsWritten

\* a secondary's prompt is with the agent, the agent has answered it, and
\* the primary was written its user_message_chunk
C32_Witness ==
  \E t \in PromptsWritten :
    /\ chan[t].Frontend \in Secondaries
    /\ \E k \in DOMAIN agentOut : agentOut[k].result.echo = t
    /\ userMessage(chan[t].Line.params.sessionId,
                   chan[t].Line.params.prompt[1]) \in LinesOf(Primary)

\* C33: when several producers send to the same frontend concurrently,
\* each line and its newline are written as one unit: on the output of a
\* frontend every line is followed by the newline of the producer that
\* wrote it, before anything else is written
C33_LinesDoNotInterleave ==
  \A f \in FeIds : \A i \in DOMAIN out[f] :
    IF i % 2 = 1
    THEN /\ out[f][i].line # Newline
         /\ i < Len(out[f]) =>
               /\ out[f][i + 1].line = Newline
               /\ out[f][i + 1].via = out[f][i].via
    ELSE out[f][i].line = Newline

\* the replay task of a frontend is between the two Writes of a Send while
\* the agent loop has a line for the same frontend, and the frontend was
\* already written one line by each of them
C33_Witness ==
  \E f \in Secondaries :
    /\ replay[f].pc = "nl"
    /\ aloop.pc = "send" /\ Head(aloop.fes) = f
    /\ \E i \in DOMAIN out[f] : out[f][i].via = "live"
    /\ \E i \in DOMAIN out[f] :
          out[f][i].via = "replay" /\ i < Len(out[f])

\* the session/set_mode requests the agent has answered with an error and
\* never with a result
FailedSetModes ==
  {RequestOf(agentOut[k]) : k \in {j \in DOMAIN agentOut :
      IsSetModeAnswer(agentOut[j]) /\ agentOut[j].error # NoError}}

\* the modes of the session/set_mode requests the agent has answered with a
\* result
ModesSet ==
  {chan[RequestOf(agentOut[k])].Line.params.modeId :
     k \in {j \in DOMAIN agentOut :
       IsSetModeAnswer(agentOut[j]) /\ agentOut[j].error = NoError}}

\* C34: a current_mode_update notification is synthesized only when the
\* session/set_mode request succeeds: when the agent answers with an error,
\* no current_mode_update of that request is added to the cache or written
\* to any frontend
C34_NoModeUpdateOnError ==
  \A t \in FailedSetModes :
    chan[t].Line.params.modeId \notin ModesSet =>
      /\ ModeUpdateOf(t) \notin Range(cache.updates)
      /\ \A f \in FeIds : ModeUpdateOf(t) \notin LinesOf(f)

\* the places among the agent's lines that give rise to a session/update
\* notification: the agent's own updates and its answers to session/set_mode
Notifying ==
  {k \in DOMAIN agentOut :
     IsUpdate(agentOut[k]) \/ IsSetModeAnswer(agentOut[k])}

\* the notification of such a place and the frontend it is not meant for
NotificationOf(k) ==
  IF IsUpdate(agentOut[k]) THEN agentOut[k]
  ELSE ModeUpdateOf(RequestOf(agentOut[k]))

SenderOf(k) ==
  IF IsUpdate(agentOut[k]) THEN NoFe ELSE chan[RequestOf(agentOut[k])].Frontend

\* how many copies of a notification a frontend is owed, and how many it
\* has been written
Owed(f, n) ==
  Cardinality({k \in Notifying : NotificationOf(k) = n /\ SenderOf(k) # f})

Got(f, n) == Cardinality({i \in DOMAIN out[f] : out[f][i].line = n})

\* the replay of the frontend and the sends of the agent loop are done
Settled(f) ==
  /\ f \in Members
  /\ f \notin closed
  /\ replay[f].pc = "done"
  /\ aloop.pc = "read"

\* C35: no notification is lost to a joining frontend: every session/update
\* notification (emitted by the agent, or synthesized for another sender)
\* that is dispatched at any time relative to the attachment of a secondary
\* frontend reaches it, inside its replay or as a live broadcast
C35_NoNotificationLost ==
  \A f \in Secondaries :
    Settled(f) =>
      \A k \in Notifying : Got(f, NotificationOf(k)) >= Owed(f, NotificationOf(k))

\* a frontend has been written one notification in its replay only and a
\* later one live only, and one of the two was synthesized
C35_Witness ==
  \E f \in Secondaries : \E k, l \in Notifying :
    /\ Settled(f)
    /\ k < l
    /\ IsUpdate(agentOut[k]) # IsUpdate(agentOut[l])
    /\ SenderOf(k) # f /\ SenderOf(l) # f
    /\ \A i \in DOMAIN out[f] :
          /\ out[f][i].line = NotificationOf(k) => out[f][i].via = "replay"
          /\ out[f][i].line = NotificationOf(l) => out[f][i].via # "replay"

\* the agent's update at place k is held by a line written to f in the way
\* via: the line itself, or a coalesced chunk whose text takes in its text
Received(f, k, via) ==
  \E i \in DOMAIN out[f] :
    /\ out[f][i].via = via
    /\ IsUpdate(out[f][i].line)
    /\ out[f][i].line.params.update.sessionUpdate =
         agentOut[k].params.update.sessionUpdate
    /\ k \in Range(out[f][i].line.params.update.content.text)

\* C36: no notification is delivered twice to a joining frontend: a
\* session/update notification that is cached and broadcast while a
\* secondary frontend is attached is never written to that frontend both in
\* its replay and as a live broadcast
C36_NoNotificationTwice ==
  \A f \in Secondaries : \A k \in DOMAIN agentOut :
    IsUpdate(agentOut[k]) =>
      ~(Received(f, k, "replay") /\ Received(f, k, "live"))

IsTurnComplete(line) ==
  IsUpdate(line) /\ line.params.update.sessionUpdate = "turn_complete"

IsToolCall(line) ==
  IsUpdate(line) /\ line.params.update.sessionUpdate = "tool_call"

\* line a is somewhere before line b in the cache's updates list
CachedBefore(a, b) ==
  \E p, q \in DOMAIN cache.updates :
    p < q /\ cache.updates[p] = a /\ cache.updates[q] = b

\* C37: for a frontend other than the prompt's sender that stays connected,
\* the order in which it is written, outside its replay, a synthesized
\* turn_complete and the notifications the agent emits after the prompt's
\* response is their order in the cache's updates list
C37_TurnCompleteInCacheOrder ==
  \A f \in FeIds : \A i, j \in DOMAIN out[f] :
    /\ i < j
    /\ out[f][i].via # "replay" /\ out[f][j].via # "replay"
    /\ \/ IsToolCall(out[f][i].line) /\ IsTurnComplete(out[f][j].line)
       \/ IsTurnComplete(out[f][i].line) /\ IsToolCall(out[f][j].line)
    => CachedBefore(out[f][i].line, out[f][j].line)

\* the frontend lines written to the agent that answer an fs/ or terminal/
\* reverse call: responses under the id of such a call of the agent
PrimaryOnlyAnswers ==
  {i \in DOMAIN agentIn :
     /\ classify(parseEnvelope(agentIn[i])) = "KindResponse"
     /\ \E k \in DOMAIN agentOut :
          IsPrimaryOnly(agentOut[k]) /\ agentOut[k].id = agentIn[i].id}

\* C38: a response to an fs/ or terminal/ reverse call is forwarded to the
\* agent only when it comes from the primary frontend: the response of a
\* secondary frontend under the id of such a call, which it was never sent,
\* is not forwarded, also when no primary was connected and the call was
\* dropped
C38_FsAnswerFromPrimaryOnly ==
  \A i \in PrimaryOnlyAnswers :
    chan[agentIn[i].result.echo].Frontend = Primary

\* the prompts that were not forwarded: their frontend holds the "Agent
\* process exited" error and the agent was not written them
FailedPrompts ==
  {t \in DOMAIN chan :
     /\ IsPrompt(t)
     /\ Errors(chan[t].Frontend, t) # {}
     /\ t \notin PromptsWritten}

\* C39: a session/prompt that cannot be forwarded because the agent is dead
\* or the write fails leaves the session state unchanged: the cache's
\* updates list gains no user_message_chunk and no other frontend is
\* written one for that prompt
C39_FailedPromptLeavesNoTrace ==
  \A t \in FailedPrompts :
    \A b \in Range(chan[t].Line.params.prompt) :
      LET n == userMessage(chan[t].Line.params.sessionId, b)
      IN  /\ n \notin Range(cache.updates)
          /\ \A g \in FeIds : n \notin LinesOf(g)

\* the steps by which the agent loop passes on a line it has read: the copy
\* of the list in broadcastExcept, the lookup in sendToPrimary
AgentLoopDispatch ==
  \/ AgentBroadcastSnapshot
  \/ AgentSendToPrimary

\* C40: the agent-read loop never waits for the agent to consume its input:
\* while a write of a frontend line to the agent is blocked because the
\* agent is not reading, a line the agent loop has read can still be
\* dispatched to the frontends, so that proxy and agent cannot wait for each
\* other on full pipes
C40_AgentLoopNotBlockedByAgentWrite ==
  floop.pc = "locked" /\ aloop.pc \in {"snap", "primary"}
    => ENABLED AgentLoopDispatch

====
